---- MODULE Spec2Model ----
(***************************************************************************)
(* Model of the code-execution dispatcher of the realtime pair tool        *)
(* (src/src/app/api/run/route.ts): the POST handler of /api/run, the       *)
(* candidate search runCandidates and the child-process wrapper            *)
(* runCommand, together with the parts of the host they act on (the temp   *)
(* directory tree, the child processes and their event streams).           *)
(*                                                                         *)
(* Texts (stdout, stderr) are sequences of pieces [text, len]: the cap     *)
(* logic of runCommand only looks at lengths, the responses only copy.     *)
(* A close event is the pair (code, signal) Node delivers; a child that    *)
(* was terminated by a signal has no exit code (code = null).              *)
(***************************************************************************)
EXTENDS Integers, Sequences, FiniteSets, TLC

(* ------------------------------------------------------------------ *)
(* Program constants                                                    *)
(* ------------------------------------------------------------------ *)
MAX_OUTPUT == 200000

(* ------------------------------------------------------------------ *)
(* Bounds of the model                                                  *)
(* ------------------------------------------------------------------ *)
\* data events delivered to one child (both streams together)
MaxChunks == 2

\* the invocations of the handler; Spec runs the first one alone
Invs == {1, 2}

\* values randomUUID can return
UUIDs == {"u1", "u2"}

\* sizes (in characters) of the chunks a data event may carry
ChunkSizes == {1, MAX_OUTPUT}

\* exit codes a program may end with (127 is also the code of "not found")
ExitCodes == {0, 1, 127}

\* signals that terminate a child other than the engine's SIGKILL
CrashSignals == {"SIGSEGV"}

(* ------------------------------------------------------------------ *)
(* The language table                                                   *)
(* ------------------------------------------------------------------ *)
\* a literal part of a command or argument template
Lit(s) == [kind |-> "lit", text |-> <<s>>, dir |-> ""]

\* a placeholder {file}, {exe} or {dir} of a template
Var(k) == [kind |-> "var", text |-> <<k>>, dir |-> ""]

LANGUAGE_SPECS ==
    "python"   :> [kind |-> "direct", ext |-> "py", candidates |->
        <<[command |-> <<Lit("python")>>, args |-> <<<<Var("file")>>>>],
          [command |-> <<Lit("py")>>, args |-> <<<<Lit("-3")>>, <<Var("file")>>>>]>>] @@
    "javascript" :> [kind |-> "direct", ext |-> "js", candidates |->
        <<[command |-> <<Lit("node")>>, args |-> <<<<Var("file")>>>>]>>] @@
    "typescript" :> [kind |-> "direct", ext |-> "ts", candidates |->
        <<[command |-> <<Lit("tsx")>>, args |-> <<<<Var("file")>>>>],
          [command |-> <<Lit("ts-node")>>, args |-> <<<<Var("file")>>>>],
          [command |-> <<Lit("deno")>>, args |-> <<<<Lit("run")>>, <<Lit("--allow-all")>>, <<Var("file")>>>>]>>] @@
    "java"     :> [kind |-> "compile", ext |-> "java", filename |-> "Main.java", compile |->
        <<[command |-> <<Lit("javac")>>, args |-> <<<<Var("file")>>>>]>>, run |->
        <<[command |-> <<Lit("java")>>, args |-> <<<<Lit("-cp")>>, <<Var("dir")>>, <<Lit("Main")>>>>]>>] @@
    "c"        :> [kind |-> "compile", ext |-> "c", filename |-> "main.c", compile |->
        <<[command |-> <<Lit("gcc")>>, args |-> <<<<Var("file")>>, <<Lit("-O2")>>, <<Lit("-o")>>, <<Var("exe")>>>>],
          [command |-> <<Lit("clang")>>, args |-> <<<<Var("file")>>, <<Lit("-O2")>>, <<Lit("-o")>>, <<Var("exe")>>>>]>>, run |->
        <<[command |-> <<Var("exe")>>, args |-> <<>>]>>] @@
    "cpp"      :> [kind |-> "compile", ext |-> "cpp", filename |-> "main.cpp", compile |->
        <<[command |-> <<Lit("g++")>>, args |-> <<<<Var("file")>>, <<Lit("-O2")>>, <<Lit("-std=c++17")>>, <<Lit("-o")>>, <<Var("exe")>>>>],
          [command |-> <<Lit("clang++")>>, args |-> <<<<Var("file")>>, <<Lit("-O2")>>, <<Lit("-std=c++17")>>, <<Lit("-o")>>, <<Var("exe")>>>>]>>, run |->
        <<[command |-> <<Var("exe")>>, args |-> <<>>]>>] @@
    "csharp"   :> [kind |-> "compile", ext |-> "cs", filename |-> "Program.cs", compile |->
        <<[command |-> <<Lit("csc")>>, args |-> <<<<Lit("/nologo")>>, <<Lit("/out:"), Var("exe"), Lit(".exe")>>, <<Var("file")>>>>],
          [command |-> <<Lit("mcs")>>, args |-> <<<<Lit("-out:"), Var("exe"), Lit(".exe")>>, <<Var("file")>>>>]>>, run |->
        <<[command |-> <<Var("exe"), Lit(".exe")>>, args |-> <<>>],
          [command |-> <<Lit("dotnet")>>, args |-> <<<<Var("exe"), Lit(".exe")>>>>]>>] @@
    "go"       :> [kind |-> "compile", ext |-> "go", filename |-> "main.go", compile |->
        <<[command |-> <<Lit("go")>>, args |-> <<<<Lit("build")>>, <<Lit("-o")>>, <<Var("exe")>>, <<Var("file")>>>>]>>, run |->
        <<[command |-> <<Var("exe")>>, args |-> <<>>]>>] @@
    "rust"     :> [kind |-> "compile", ext |-> "rs", filename |-> "main.rs", compile |->
        <<[command |-> <<Lit("rustc")>>, args |-> <<<<Var("file")>>, <<Lit("-O")>>, <<Lit("-o")>>, <<Var("exe")>>>>]>>, run |->
        <<[command |-> <<Var("exe")>>, args |-> <<>>]>>] @@
    "php"      :> [kind |-> "direct", ext |-> "php", candidates |->
        <<[command |-> <<Lit("php")>>, args |-> <<<<Var("file")>>>>]>>] @@
    "swift"    :> [kind |-> "direct", ext |-> "swift", candidates |->
        <<[command |-> <<Lit("swift")>>, args |-> <<<<Var("file")>>>>]>>] @@
    "kotlin"   :> [kind |-> "direct", ext |-> "kt", candidates |->
        <<[command |-> <<Lit("kotlinc")>>, args |-> <<<<Lit("-script")>>, <<Var("file")>>>>]>>] @@
    "ruby"     :> [kind |-> "direct", ext |-> "rb", candidates |->
        <<[command |-> <<Lit("ruby")>>, args |-> <<<<Var("file")>>>>]>>] @@
    "dart"     :> [kind |-> "direct", ext |-> "dart", candidates |->
        <<[command |-> <<Lit("dart")>>, args |-> <<<<Lit("run")>>, <<Var("file")>>>>]>>] @@
    "r"        :> [kind |-> "direct", ext |-> "r", candidates |->
        <<[command |-> <<Lit("Rscript")>>, args |-> <<<<Var("file")>>>>],
          [command |-> <<Lit("R")>>, args |-> <<<<Lit("--vanilla")>>, <<Lit("-f")>>, <<Var("file")>>>>]>>] @@
    "sql"      :> [kind |-> "unsupported", ext |-> "sql", reason |-> "SQL needs a concrete DB engine/connection."] @@
    "html"     :> [kind |-> "unsupported", ext |-> "html", reason |-> "HTML is markup and not directly executable by this runner."] @@
    "css"      :> [kind |-> "unsupported", ext |-> "css", reason |-> "CSS is stylesheet code and not directly executable by this runner."] @@
    "bash"     :> [kind |-> "direct", ext |-> "sh", candidates |->
        <<[command |-> <<Lit("bash")>>, args |-> <<<<Var("file")>>>>]>>] @@
    "powershell" :> [kind |-> "direct", ext |-> "ps1", candidates |->
        <<[command |-> <<Lit("pwsh")>>, args |-> <<<<Lit("-File")>>, <<Var("file")>>>>],
          [command |-> <<Lit("powershell")>>, args |-> <<<<Lit("-ExecutionPolicy")>>, <<Lit("Bypass")>>, <<Lit("-File")>>, <<Var("file")>>>>]>>] @@
    "scala"    :> [kind |-> "direct", ext |-> "scala", candidates |->
        <<[command |-> <<Lit("scala")>>, args |-> <<<<Var("file")>>>>]>>] @@
    "haskell"  :> [kind |-> "direct", ext |-> "hs", candidates |->
        <<[command |-> <<Lit("runghc")>>, args |-> <<<<Var("file")>>>>]>>] @@
    "elixir"   :> [kind |-> "direct", ext |-> "exs", candidates |->
        <<[command |-> <<Lit("elixir")>>, args |-> <<<<Var("file")>>>>]>>] @@
    "erlang"   :> [kind |-> "direct", ext |-> "erl", candidates |->
        <<[command |-> <<Lit("escript")>>, args |-> <<<<Var("file")>>>>]>>] @@
    "lua"      :> [kind |-> "direct", ext |-> "lua", candidates |->
        <<[command |-> <<Lit("lua")>>, args |-> <<<<Var("file")>>>>]>>] @@
    "matlab"   :> [kind |-> "direct", ext |-> "m", candidates |->
        <<[command |-> <<Lit("octave")>>, args |-> <<<<Lit("--silent")>>, <<Var("file")>>>>]>>] @@
    "objectivec" :> [kind |-> "compile", ext |-> "m", filename |-> "main.m", compile |->
        <<[command |-> <<Lit("clang")>>, args |-> <<<<Var("file")>>, <<Lit("-o")>>, <<Var("exe")>>>>]>>, run |->
        <<[command |-> <<Var("exe")>>, args |-> <<>>]>>] @@
    "vbnet"    :> [kind |-> "compile", ext |-> "vb", filename |-> "Program.vb", compile |->
        <<[command |-> <<Lit("vbc")>>, args |-> <<<<Lit("/nologo")>>, <<Lit("/out:"), Var("exe"), Lit(".exe")>>, <<Var("file")>>>>]>>, run |->
        <<[command |-> <<Var("exe"), Lit(".exe")>>, args |-> <<>>]>>] @@
    "vba"      :> [kind |-> "unsupported", ext |-> "vba", reason |-> "VBA requires an Office host application (Excel/Word)."] @@
    "fsharp"   :> [kind |-> "direct", ext |-> "fsx", candidates |->
        <<[command |-> <<Lit("dotnet")>>, args |-> <<<<Lit("fsi")>>, <<Var("file")>>>>]>>] @@
    "perl"     :> [kind |-> "direct", ext |-> "pl", candidates |->
        <<[command |-> <<Lit("perl")>>, args |-> <<<<Var("file")>>>>]>>] @@
    "groovy"   :> [kind |-> "direct", ext |-> "groovy", candidates |->
        <<[command |-> <<Lit("groovy")>>, args |-> <<<<Var("file")>>>>]>>] @@
    "clojure"  :> [kind |-> "direct", ext |-> "clj", candidates |->
        <<[command |-> <<Lit("clojure")>>, args |-> <<<<Var("file")>>>>],
          [command |-> <<Lit("bb")>>, args |-> <<<<Var("file")>>>>]>>] @@
    "julia"    :> [kind |-> "direct", ext |-> "jl", candidates |->
        <<[command |-> <<Lit("julia")>>, args |-> <<<<Var("file")>>>>]>>] @@
    "assembly" :> [kind |-> "unsupported", ext |-> "asm", reason |-> "Assembly needs a target architecture and linker workflow."] @@
    "cobol"    :> [kind |-> "compile", ext |-> "cob", filename |-> "main.cob", compile |->
        <<[command |-> <<Lit("cobc")>>, args |-> <<<<Lit("-x")>>, <<Var("file")>>, <<Lit("-o")>>, <<Var("exe")>>>>]>>, run |->
        <<[command |-> <<Var("exe")>>, args |-> <<>>]>>] @@
    "fortran"  :> [kind |-> "compile", ext |-> "f90", filename |-> "main.f90", compile |->
        <<[command |-> <<Lit("gfortran")>>, args |-> <<<<Var("file")>>, <<Lit("-o")>>, <<Var("exe")>>>>]>>, run |->
        <<[command |-> <<Var("exe")>>, args |-> <<>>]>>] @@
    "ada"      :> [kind |-> "compile", ext |-> "adb", filename |-> "main.adb", compile |->
        <<[command |-> <<Lit("gnatmake")>>, args |-> <<<<Var("file")>>, <<Lit("-o")>>, <<Var("exe")>>>>]>>, run |->
        <<[command |-> <<Var("exe")>>, args |-> <<>>]>>] @@
    "lisp"     :> [kind |-> "direct", ext |-> "lisp", candidates |->
        <<[command |-> <<Lit("sbcl")>>, args |-> <<<<Lit("--script")>>, <<Var("file")>>>>],
          [command |-> <<Lit("clisp")>>, args |-> <<<<Var("file")>>>>]>>] @@
    "prolog"   :> [kind |-> "direct", ext |-> "pl", candidates |->
        <<[command |-> <<Lit("swipl")>>, args |-> <<<<Lit("-q")>>, <<Lit("-s")>>, <<Var("file")>>, <<Lit("-g")>>, <<Lit("main")>>, <<Lit("-t")>>, <<Lit("halt")>>>>]>>] @@
    "scratch"  :> [kind |-> "unsupported", ext |-> "sb3", reason |-> "Scratch projects are not text executables in this runner."] @@
    "solidity" :> [kind |-> "unsupported", ext |-> "sol", reason |-> "Solidity needs a blockchain toolchain/runtime (solc/evm)."] @@
    "apex"     :> [kind |-> "unsupported", ext |-> "cls", reason |-> "Apex runs only inside Salesforce environments."] @@
    "plsql"    :> [kind |-> "unsupported", ext |-> "sql", reason |-> "PL/SQL needs an Oracle DB runtime."] @@
    "abap"     :> [kind |-> "unsupported", ext |-> "abap", reason |-> "ABAP runs inside SAP systems."] @@
    "gdscript" :> [kind |-> "direct", ext |-> "gd", candidates |->
        <<[command |-> <<Lit("godot")>>, args |-> <<<<Lit("--headless")>>, <<Lit("--script")>>, <<Var("file")>>>>]>>] @@
    "qsharp"   :> [kind |-> "direct", ext |-> "qs", candidates |->
        <<[command |-> <<Lit("dotnet")>>, args |-> <<<<Lit("run")>>, <<Var("file")>>>>]>>] @@
    "nim"      :> [kind |-> "compile", ext |-> "nim", filename |-> "main.nim", compile |->
        <<[command |-> <<Lit("nim")>>, args |-> <<<<Lit("c")>>, <<Lit("-o:"), Var("exe")>>, <<Var("file")>>>>]>>, run |->
        <<[command |-> <<Var("exe")>>, args |-> <<>>]>>] @@
    "crystal"  :> [kind |-> "compile", ext |-> "cr", filename |-> "main.cr", compile |->
        <<[command |-> <<Lit("crystal")>>, args |-> <<<<Lit("build")>>, <<Var("file")>>, <<Lit("-o")>>, <<Var("exe")>>>>]>>, run |->
        <<[command |-> <<Var("exe")>>, args |-> <<>>]>>] @@
    "rescript" :> [kind |-> "unsupported", ext |-> "res", reason |-> "ReasonML/ReScript needs a project compiler toolchain."]
\* String.prototype.length of the literal texts that reach stdout or stderr
Length ==
    "SQL needs a concrete DB engine/connection." :> 42 @@
    "HTML is markup and not directly executable by this runner." :> 58 @@
    "CSS is stylesheet code and not directly executable by this runner." :> 66 @@
    "VBA requires an Office host application (Excel/Word)." :> 53 @@
    "Assembly needs a target architecture and linker workflow." :> 57 @@
    "Scratch projects are not text executables in this runner." :> 57 @@
    "Solidity needs a blockchain toolchain/runtime (solc/evm)." :> 57 @@
    "Apex runs only inside Salesforce environments." :> 46 @@
    "PL/SQL needs an Oracle DB runtime." :> 34 @@
    "ABAP runs inside SAP systems." :> 29 @@
    "ReasonML/ReScript needs a project compiler toolchain." :> 53 @@
    "spawn EACCES" :> 12

(* ------------------------------------------------------------------ *)
(* Texts                                                                *)
(* ------------------------------------------------------------------ *)
\* a literal string as a text of one piece
TextOf(s) == <<[text |-> s, len |-> Length[s]]>>

\* chunk.toString("utf8") of a data event carrying n characters
Chunk(n) == [text |-> "chunk", len |-> n]

\* String.prototype.length of a text
RECURSIVE StrLen(_)
StrLen(s) == IF s = <<>> THEN 0 ELSE Head(s).len + StrLen(Tail(s))

\* the characters String.prototype.trim removes
Whitespace == {" ", "\t", "\n"}

RECURSIVE TrimStart(_)
TrimStart(s) ==
    IF s # <<>> /\ Head(s) \in Whitespace THEN TrimStart(Tail(s)) ELSE s

RECURSIVE TrimEnd(_)
TrimEnd(s) ==
    IF s # <<>> /\ s[Len(s)] \in Whitespace
    THEN TrimEnd(SubSeq(s, 1, Len(s) - 1))
    ELSE s

\* String.prototype.trim over a string given as its characters
Trim(s) == TrimEnd(TrimStart(s))

(* ------------------------------------------------------------------ *)
(* Requests                                                             *)
(* ------------------------------------------------------------------ *)
\* JSON values of the body's code property
CodeInputs ==
    { [type |-> "string", value |-> <<>>],
      [type |-> "string", value |-> <<" ", "\n">>],
      [type |-> "string", value |-> <<" ", "x", " ">>],
      [type |-> "number", value |-> <<"7">>] }

\* JSON values of the body's language property: one language of each shape
\* of the table, and values that are not own keys of the table
LanguageInputs ==
    { [type |-> "string", value |-> l] :
        l \in {"javascript", "python", "typescript", "go",
               "sql", "plsql", "brainfuck", "Python", "constructor"} }
    \cup { [type |-> "number", value |-> "7"] }

\* what request.json() can produce: a parsed body, or a rejection
Bodies ==
    [valid : {TRUE}, code : CodeInputs, language : LanguageInputs]
    \cup { [valid |-> FALSE, code |-> [type |-> "undefined", value |-> <<>>],
            language |-> [type |-> "undefined", value |-> ""]] }

\* the results verifyApiSecurity can return
SecurityOk == [ok |-> TRUE, status |-> 200, error |-> ""]

SecurityFailures ==
    { [ok |-> FALSE, status |-> 403, error |-> "Blocked by CSRF origin policy"],
      [ok |-> FALSE, status |-> 401, error |-> "Invalid API auth session"],
      [ok |-> FALSE, status |-> 403, error |-> "Invalid CSRF token"] }

PlainBody ==
    [valid |-> TRUE, code |-> [type |-> "string", value |-> <<" ", "x", " ">>],
     language |-> [type |-> "string", value |-> "python"]]

Requests ==
    { [security |-> SecurityOk, body |-> b] : b \in Bodies }
    \cup { [security |-> s, body |-> PlainBody] : s \in SecurityFailures }

\* a code that is taken as it is, whatever its JSON type
CodeOfAnyType(body) == body.code.value

\* const code = typeof body?.code === "string" ? body.code : ""
CodeOf(body) == IF body.code.type = "string" THEN body.code.value ELSE <<>>

\* a language name that is matched whatever its case
LanguageInputOfAnyCase(body) ==
    IF body.language.type # "string" THEN ""
    ELSE IF body.language.value = "Python" THEN "python"
    ELSE body.language.value

\* const languageInput = typeof body?.language === "string" ? body.language : ""
LanguageInputOf(body) ==
    IF body.language.type = "string" THEN body.language.value ELSE ""

isValidLanguage(value) == value \in DOMAIN LANGUAGE_SPECS

(* ------------------------------------------------------------------ *)
(* Paths and candidates                                                 *)
(* ------------------------------------------------------------------ *)
Platforms == {"linux", "win32"}

\* path.join(runDir, name); the directory itself has the empty name
PathJoin(dir, name) == [kind |-> "path", text |-> name, dir |-> dir]

\* spec.filename ?? `main.${spec.ext}`
FileNameOf(spec) ==
    IF "filename" \in DOMAIN spec THEN <<spec.filename>> ELSE <<"main.", spec.ext>>

\* process.platform === "win32" ? "program.exe" : "program"
ExeNameOf(os) == IF os = "win32" THEN <<"program.exe">> ELSE <<"program">>

VarsOf(dir, spec, os) ==
    [file |-> PathJoin(dir, FileNameOf(spec)),
     exe  |-> PathJoin(dir, ExeNameOf(os)),
     dir  |-> PathJoin(dir, <<>>)]

applyVars(value, vars) ==
    [j \in 1..Len(value) |->
        IF value[j].kind = "var" THEN vars[value[j].text[1]] ELSE value[j]]

materialize(candidate, vars) ==
    [command |-> applyVars(candidate.command, vars),
     args |-> [j \in 1..Len(candidate.args) |-> applyVars(candidate.args[j], vars)]]

(* ------------------------------------------------------------------ *)
(* Results and responses                                                *)
(* ------------------------------------------------------------------ *)
\* an initial value that does not say that nothing was found
InitialLastFound ==
    [exitCode |-> 127, stdout |-> <<>>, stderr |-> <<>>,
     timedOut |-> FALSE, notFound |-> FALSE]

\* the value of last before any candidate ran
InitialLast ==
    [exitCode |-> 127, stdout |-> <<>>, stderr |-> <<>>,
     timedOut |-> FALSE, notFound |-> TRUE]

JsonResponse(body, status) == [status |-> status, body |-> body]

\* no response yet
NoResponse == [status |-> 0, body |-> [none |-> TRUE]]

\* an exception that leaves the handler: the framework answers 500
Thrown(what) == [status |-> 500, body |-> [exception |-> what]]

Has(body, field) == field \in DOMAIN body

SecurityResponse(security) ==
    JsonResponse([error |-> <<security.error>>], security.status)

CodeEmptyResponse == JsonResponse([error |-> <<"Code is empty.">>], 400)

InvalidLanguageResponse == JsonResponse([error |-> <<"Unsupported language.">>], 400)

\* an answer to an unsupported language that leaves stderr empty
UnsupportedResponseNoStderr(spec) ==
    JsonResponse([ok |-> FALSE, exitCode |-> 2, timedOut |-> FALSE,
                  stdout |-> <<>>, stderr |-> <<>>,
                  error |-> <<spec.reason>>], 400)

UnsupportedResponse(spec) ==
    JsonResponse([ok |-> FALSE, exitCode |-> 2, timedOut |-> FALSE,
                  stdout |-> <<>>, stderr |-> TextOf(spec.reason),
                  error |-> <<spec.reason>>], 400)

\* an ok that only looks at the exit code
OkOfExitCode(result) == result.exitCode = 0

\* result.exitCode === 0 && !result.timedOut
OkOf(result) == result.exitCode = 0 /\ ~result.timedOut

\* a structured result that reports every phase that ran as a success
ResultResponseOkAlways(result) ==
    JsonResponse([ok |-> TRUE, exitCode |-> result.exitCode,
                  timedOut |-> result.timedOut, stdout |-> result.stdout,
                  stderr |-> result.stderr], 200)

\* the structured result of a phase that ran
ResultResponse(result) ==
    JsonResponse([ok |-> OkOf(result), exitCode |-> result.exitCode,
                  timedOut |-> result.timedOut, stdout |-> result.stdout,
                  stderr |-> result.stderr], 200)

RuntimeMissingError(language) == <<"No installed runtime found for ", language, ".">>

CompilerMissingError(language) == <<"No installed compiler found for ", language, ".">>

\* the message of the compile phase used for the run phase too
ExecutableMissingErrorAsCompiler(language) ==
    <<"No installed compiler found for ", language, ".">>

ExecutableMissingError(language) ==
    <<"Compiled ", language, ", but executable runtime is missing.">>

ToolMissingResponse(message, out, err) ==
    JsonResponse([ok |-> FALSE, error |-> message, exitCode |-> 127,
                  timedOut |-> FALSE, stdout |-> out, stderr |-> err], 400)

\* a direct branch that takes exit code 127 of a program for a missing tool
DirectResponseBy127(language, result) ==
    IF result.notFound \/ result.exitCode = 127
    THEN ToolMissingResponse(RuntimeMissingError(language), <<>>, <<>>)
    ELSE ResultResponse(result)

\* the return statement of the direct branch
DirectResponse(language, result) ==
    IF result.notFound
    THEN ToolMissingResponse(RuntimeMissingError(language), <<>>, <<>>)
    ELSE ResultResponse(result)

\* a compile check that forgets the timeout
CompileFailedByExitCode(compileResult) == compileResult.exitCode # 0

\* compileResult.exitCode !== 0 || compileResult.timedOut
CompileFailed(compileResult) ==
    compileResult.exitCode # 0 \/ compileResult.timedOut

\* a run phase that answers with the output of no process
RunResponseNoOutput(language, runResult) ==
    IF runResult.notFound
    THEN ToolMissingResponse(ExecutableMissingError(language),
                             runResult.stdout, runResult.stderr)
    ELSE ResultResponse([runResult EXCEPT !.stdout = <<>>])

\* the return statement after the run phase of a compiled language
RunResponse(language, runResult) ==
    IF runResult.notFound
    THEN ToolMissingResponse(ExecutableMissingError(language),
                             runResult.stdout, runResult.stderr)
    ELSE ResultResponse(runResult)

\* a compile phase whose failure is reported as a failure of the request
CompileResponseAsFailure(language, compileResult) ==
    IF compileResult.notFound
    THEN ToolMissingResponse(CompilerMissingError(language),
                             compileResult.stdout, compileResult.stderr)
    ELSE JsonResponse([ok |-> FALSE, exitCode |-> compileResult.exitCode,
                       timedOut |-> compileResult.timedOut,
                       stdout |-> compileResult.stdout,
                       stderr |-> compileResult.stderr], 400)

\* the return statements that end a compiled language after its compile phase
CompileResponse(language, compileResult) ==
    IF compileResult.notFound
    THEN ToolMissingResponse(CompilerMissingError(language),
                             compileResult.stdout, compileResult.stderr)
    ELSE JsonResponse([ok |-> FALSE, exitCode |-> compileResult.exitCode,
                       timedOut |-> compileResult.timedOut,
                       stdout |-> compileResult.stdout,
                       stderr |-> compileResult.stderr], 200)

\* the candidate list of a phase
CandidatesOf(spec, phase) ==
    IF phase = "direct" THEN spec.candidates
    ELSE IF phase = "compile" THEN spec.compile
    ELSE spec.run

\* a search that goes on after a program that ran and failed
ShouldBreakOnSuccess(result) == ~result.notFound /\ result.exitCode = 0

\* a search that stops at the first candidate whatever happened
ShouldBreakAlways(result) == TRUE

\* if (!result.notFound) break
ShouldBreak(result) == ~result.notFound

\* a data handler that appends whatever the length of the accumulator
OnDataAlways(acc, chunk) == Append(acc, chunk)

\* stdout.length < MAX_OUTPUT guards the append of a data handler
OnData(acc, chunk) ==
    IF StrLen(acc) < MAX_OUTPUT THEN Append(acc, chunk) ELSE acc

\* code ?? 0 of the close handler; the code is null when a signal ended the child
CloseExitCode(status) == IF status.codeIsNull THEN 0 ELSE status.code

(* ------------------------------------------------------------------ *)
(* State                                                                *)
(* ------------------------------------------------------------------ *)
VARIABLES
    req,            \* the request of each invocation
    specs,          \* the language table POST reads its candidate lists from
    platform,       \* process.platform of the host
    pc,             \* the position of each invocation in POST
    runDir,         \* POST: runDir (the random part of its name)
    phase,          \* which candidate list is searched: direct, compile, run
    idx,            \* runCandidates: position of the for loop
    last,           \* runCandidates: last
    compileResult,  \* POST: compileResult
    child,          \* runCommand: the child process
    stdout,         \* runCommand: stdout
    stderr,         \* runCommand: stderr
    finished,       \* runCommand: finished
    timedOut,       \* runCommand: timedOut
    notFound,       \* runCommand: notFound
    timer,          \* runCommand: timer
    chunks,         \* data events delivered to the current child
    pending,        \* the value POST returns (or throws) once finally is done
    response,       \* the response the caller received
    spawnLog,       \* every spawn call of the invocation, in order
    runs,           \* every resolved runCommand call, in order
    rmCalled,       \* whether fs.rm was called for the invocation's runDir
    disk,           \* the paths that exist under the temp root
    usedIds,        \* the values randomUUID has returned
    rooms,          \* room registry: the rooms Map, or the rows of table rooms
    tickets,        \* room registry: the tickets Map
    now,            \* Date.now()
    issued,         \* the tickets successful joinRoom calls have returned
    call,           \* the last call of the room registry and its result
    registry        \* which revision of the registry runs, and its secret

roomVars == <<rooms, tickets, now, issued, call, registry>>
handlerVars == <<roomVars, req, specs, platform, runDir, compileResult, pending, response>>
postVars == <<handlerVars, pc>>
searchVars == <<phase, idx, last>>
commandVars == <<child, stdout, stderr, finished, timedOut, notFound, timer, chunks>>
hostVars == <<spawnLog, runs, rmCalled, disk, usedIds>>
vars == <<postVars, searchVars, commandVars, hostVars>>

NoChild == [state |-> "none", err |-> "", codeIsNull |-> FALSE, code |-> 0,
            signal |-> "none", killCalled |-> FALSE]

\* LANGUAGE_SPECS[language] of an invocation that passed validation
SpecOf(i) == specs[LanguageInputOf(req[i].body)]

LanguageOf(i) == LanguageInputOf(req[i].body)

\* no call of the room registry has been made
NoCall == [op |-> "none"]

\* the registry of src/lib/room-registry.ts: Maps in memory, no secret
InMemory == [revision |-> "memory", secret |-> ""]

InitCommon ==
    /\ rooms = {}
    /\ tickets = {}
    /\ now = 0
    /\ issued = {}
    /\ call = NoCall
    /\ platform \in Platforms
    /\ runDir = [i \in Invs |-> ""]
    /\ phase = [i \in Invs |-> "none"]
    /\ idx = [i \in Invs |-> 0]
    /\ last = [i \in Invs |-> InitialLast]
    /\ compileResult = [i \in Invs |-> InitialLast]
    /\ child = [i \in Invs |-> NoChild]
    /\ stdout = [i \in Invs |-> <<>>]
    /\ stderr = [i \in Invs |-> <<>>]
    /\ finished = [i \in Invs |-> FALSE]
    /\ timedOut = [i \in Invs |-> FALSE]
    /\ notFound = [i \in Invs |-> FALSE]
    /\ timer = [i \in Invs |-> "none"]
    /\ chunks = [i \in Invs |-> 0]
    /\ pending = [i \in Invs |-> NoResponse]
    /\ response = [i \in Invs |-> NoResponse]
    /\ spawnLog = [i \in Invs |-> <<>>]
    /\ runs = [i \in Invs |-> <<>>]
    /\ rmCalled = [i \in Invs |-> FALSE]
    /\ disk = {}
    /\ usedIds = {}

\* one request arrives; the other invocation never starts
Init ==
    /\ InitCommon
    /\ registry = InMemory
    /\ specs = LANGUAGE_SPECS
    /\ \E r \in Requests : req = [i \in Invs |-> r]
    /\ pc = [i \in Invs |-> IF i = 1 THEN "verify" ELSE "idle"]

(* ------------------------------------------------------------------ *)
(* POST, up to the try block                                            *)
(* ------------------------------------------------------------------ *)
\* the handler ends: the caller receives resp
Finish(i, resp) ==
    /\ pc' = [pc EXCEPT ![i] = "done"]
    /\ response' = [response EXCEPT ![i] = resp]

\* const security = verifyApiSecurity(request); if (!security.ok) return ...
POSTVerify(i) ==
    /\ pc[i] = "verify"
    /\ IF ~req[i].security.ok
       THEN Finish(i, SecurityResponse(req[i].security))
       ELSE /\ pc' = [pc EXCEPT ![i] = "body"]
            /\ UNCHANGED response
    /\ UNCHANGED <<roomVars, req, specs, platform, runDir, compileResult, pending>>
    /\ UNCHANGED <<searchVars, commandVars, hostVars>>

\* what lines 512-539 answer, or NoResponse when the request goes on
ValidationResponse(body) ==
    IF ~body.valid THEN Thrown("request.json")
    ELSE IF Trim(CodeOf(body)) = <<>> THEN CodeEmptyResponse
    ELSE IF ~isValidLanguage(LanguageInputOf(body)) THEN InvalidLanguageResponse
    ELSE IF LANGUAGE_SPECS[LanguageInputOf(body)].kind = "unsupported"
         THEN UnsupportedResponse(LANGUAGE_SPECS[LanguageInputOf(body)])
    ELSE NoResponse

\* await request.json() and the checks of code and language
POSTValidate(i) ==
    /\ pc[i] = "body"
    /\ IF ValidationResponse(req[i].body).status # NoResponse.status
       THEN Finish(i, ValidationResponse(req[i].body))
       ELSE /\ pc' = [pc EXCEPT ![i] = "mkdir"]
            /\ UNCHANGED response
    /\ UNCHANGED <<roomVars, req, specs, platform, runDir, compileResult, pending>>
    /\ UNCHANGED <<searchVars, commandVars, hostVars>>

\* a randomUUID that can return a value it returned before
randomUUIDAny(used) == { CHOOSE u \in UUIDs : TRUE }

\* randomUUID() never returns a value it returned before; the unused values
\* are interchangeable, so one of them stands for all
randomUUID(used) == { CHOOSE u \in UUIDs \ used : TRUE }

\* const runDir = path.join(tmpdir(), `pair-run-${randomUUID()}`);
\* await fs.mkdir(runDir, { recursive: true })
POSTMkdir(i) ==
    /\ pc[i] = "mkdir"
    /\ \E u \in randomUUID(usedIds), made \in BOOLEAN :
        /\ usedIds' = usedIds \cup {u}
        /\ runDir' = [runDir EXCEPT ![i] = u]
        /\ IF made
           THEN /\ disk' = disk \cup {PathJoin(u, <<>>)}
                /\ pc' = [pc EXCEPT ![i] = "write"]
                /\ UNCHANGED response
           ELSE /\ Finish(i, Thrown("fs.mkdir"))
                /\ UNCHANGED disk
    /\ UNCHANGED <<roomVars, req, specs, platform, compileResult, pending>>
    /\ UNCHANGED <<searchVars, commandVars, spawnLog, runs, rmCalled>>

\* the first phase of a language
FirstPhase(spec) == IF spec.kind = "direct" THEN "direct" ELSE "compile"

\* runCandidates is entered for the list of phase p
EnterSearch(i, p) ==
    /\ phase' = [phase EXCEPT ![i] = p]
    /\ last' = [last EXCEPT ![i] = InitialLast]
    /\ IF Len(CandidatesOf(SpecOf(i), p)) = 0
       THEN /\ idx' = [idx EXCEPT ![i] = 0]
            /\ pc' = [pc EXCEPT ![i] = "searched"]
       ELSE /\ idx' = [idx EXCEPT ![i] = 1]
            /\ pc' = [pc EXCEPT ![i] = "search"]

\* await fs.writeFile(filePath, code, "utf8"), then the try block is entered
POSTWriteFile(i) ==
    /\ pc[i] = "write"
    /\ \E written \in BOOLEAN :
        IF written
        THEN /\ disk' = disk \cup {PathJoin(runDir[i], FileNameOf(SpecOf(i)))}
             /\ EnterSearch(i, FirstPhase(SpecOf(i)))
             /\ UNCHANGED response
        ELSE /\ Finish(i, Thrown("fs.writeFile"))
             /\ UNCHANGED <<disk, searchVars>>
    /\ UNCHANGED <<roomVars, req, specs, platform, runDir, compileResult, pending>>
    /\ UNCHANGED <<commandVars, spawnLog, runs, rmCalled, usedIds>>

(* ------------------------------------------------------------------ *)
(* runCommand                                                           *)
(* ------------------------------------------------------------------ *)
\* a for loop that goes on without waiting for the promise of runCommand
NoAwait(position) == "search"

\* await runCommand(...): runCandidates goes on only when the promise has
\* been resolved; until then it is at the given position
Await(position) == position

\* how spawn can end: the child runs, an error event is queued (the binary is
\* missing, or another run-time error of the host), or spawn itself throws
SpawnOutcomes == {"ok", "ENOENT", "EACCES", "throw"}

\* the materialized candidate the for loop is at
CurrentCandidate(i) ==
    materialize(CandidatesOf(SpecOf(i), phase[i])[idx[i]],
                VarsOf(runDir[i], SpecOf(i), platform))

\* spawn(candidate.command, candidate.args, ...), the initial values of the
\* closure and setTimeout
RunCommandSpawn(i) ==
    /\ pc[i] = "search"
    /\ \E outcome \in SpawnOutcomes :
        /\ spawnLog' = [spawnLog EXCEPT ![i] =
              Append(@, [phase |-> phase[i], idx |-> idx[i],
                         candidate |-> CurrentCandidate(i), outcome |-> outcome])]
        /\ IF outcome = "throw"
           THEN /\ pending' = [pending EXCEPT ![i] = Thrown("spawn")]
                /\ pc' = [pc EXCEPT ![i] = "cleanup"]
                /\ UNCHANGED commandVars
           ELSE /\ child' = [child EXCEPT ![i] =
                      [NoChild EXCEPT !.state = IF outcome = "ok" THEN "running"
                                                ELSE "failed",
                                      !.err = IF outcome = "ok" THEN "" ELSE outcome]]
                /\ stdout' = [stdout EXCEPT ![i] = <<>>]
                /\ stderr' = [stderr EXCEPT ![i] = <<>>]
                /\ finished' = [finished EXCEPT ![i] = FALSE]
                /\ timedOut' = [timedOut EXCEPT ![i] = FALSE]
                /\ notFound' = [notFound EXCEPT ![i] = FALSE]
                /\ timer' = [timer EXCEPT ![i] = "armed"]
                /\ chunks' = [chunks EXCEPT ![i] = 0]
                /\ pc' = [pc EXCEPT ![i] = Await("child")]
                /\ UNCHANGED pending
    /\ UNCHANGED <<roomVars, req, specs, platform, runDir, compileResult, response>>
    /\ UNCHANGED <<searchVars, runs, rmCalled, disk, usedIds>>

\* a child whose pipes are still open: it runs, or it ended and its close
\* event has not been delivered yet
PipesOpen(i) == pc[i] = "child" /\ child[i].state \in {"running", "exited"}

\* a stream that is read only while its accumulator is below the cap
FlowingBelowCap(acc) == StrLen(acc) < MAX_OUTPUT

\* the stream of a pipe stays in flowing mode: its data handler is attached
\* once and never pauses the stream or detaches, whatever it has accumulated
Flowing(acc) == TRUE

\* child.stdout.on("data", ...)
StdoutData(i) ==
    /\ PipesOpen(i)
    /\ Flowing(stdout[i])
    /\ chunks[i] < MaxChunks
    /\ \E n \in ChunkSizes :
        stdout' = [stdout EXCEPT ![i] = OnData(@, Chunk(n))]
    /\ chunks' = [chunks EXCEPT ![i] = @ + 1]
    /\ UNCHANGED <<child, stderr, finished, timedOut, notFound, timer>>
    /\ UNCHANGED <<postVars, searchVars, hostVars>>

\* child.stderr.on("data", ...)
StderrData(i) ==
    /\ PipesOpen(i)
    /\ Flowing(stderr[i])
    /\ chunks[i] < MaxChunks
    /\ \E n \in ChunkSizes :
        stderr' = [stderr EXCEPT ![i] = OnData(@, Chunk(n))]
    /\ chunks' = [chunks EXCEPT ![i] = @ + 1]
    /\ UNCHANGED <<child, stdout, finished, timedOut, notFound, timer>>
    /\ UNCHANGED <<postVars, searchVars, hostVars>>

\* the program ends by itself: it exits with a code, or a signal ends it.
\* A program whose pipe is not read blocks in its write and does not end.
ChildExit(i) ==
    /\ pc[i] = "child"
    /\ child[i].state = "running"
    /\ Flowing(stdout[i]) /\ Flowing(stderr[i])
    /\ \/ \E c \in ExitCodes :
            child' = [child EXCEPT ![i].state = "exited", ![i].code = c]
       \/ \E s \in CrashSignals :
            child' = [child EXCEPT ![i].state = "exited", ![i].codeIsNull = TRUE,
                                   ![i].signal = s]
    /\ UNCHANGED <<stdout, stderr, finished, timedOut, notFound, timer, chunks>>
    /\ UNCHANGED <<postVars, searchVars, hostVars>>

\* child.kill("SIGKILL"): ends a running child; a child that already ended is
\* left as it is
Kill(c) ==
    IF c.state = "running"
    THEN [c EXCEPT !.state = "exited", !.codeIsNull = TRUE, !.signal = "SIGKILL",
                   !.killCalled = TRUE]
    ELSE [c EXCEPT !.killCalled = TRUE]

\* the callback of setTimeout.  The error event of a failed spawn is queued
\* with process.nextTick and so always precedes it.
TimerExpire(i) ==
    /\ PipesOpen(i)
    /\ timer[i] = "armed"
    /\ timedOut' = [timedOut EXCEPT ![i] = TRUE]
    /\ child' = [child EXCEPT ![i] = Kill(@)]
    /\ timer' = [timer EXCEPT ![i] = "fired"]
    /\ UNCHANGED <<stdout, stderr, finished, notFound, chunks>>
    /\ UNCHANGED <<postVars, searchVars, hostVars>>

\* a done that never sees that the candidate was resolved
NeverFinished(f) == FALSE

\* if (finished) { return; }
AlreadyFinished(f) == f

\* done(exitCode) with the closure as given, and the step of the for loop of
\* runCandidates that its resolve resumes
done(i, exitCode, err, nf, event) ==
    LET result == [exitCode |-> exitCode, stdout |-> stdout[i], stderr |-> err,
                   timedOut |-> timedOut[i], notFound |-> nf]
    IN  IF AlreadyFinished(finished[i])
        THEN UNCHANGED <<finished, runs, last, pc, idx>>
        ELSE
        /\ finished' = [finished EXCEPT ![i] = TRUE]
        /\ runs' = [runs EXCEPT ![i] =
              Append(@, [phase |-> phase[i], idx |-> idx[i], event |-> event,
                         status |-> child[i], timer |-> timer[i],
                         captured |-> [stdout |-> stdout[i],
                                       stderr |-> stderr[i]],
                         result |-> result])]
        /\ last' = [last EXCEPT ![i] = result]
        /\ IF ShouldBreak(result)
              \/ idx[i] = Len(CandidatesOf(SpecOf(i), phase[i]))
           THEN /\ pc' = [pc EXCEPT ![i] = "searched"]
                /\ UNCHANGED idx
           ELSE /\ pc' = [pc EXCEPT ![i] = "search"]
                /\ idx' = [idx EXCEPT ![i] = @ + 1]

\* a clearTimeout that leaves the timer as it is
clearTimeoutNoop(t) == t

\* clearTimeout(timer)
clearTimeout(t) == "cleared"

\* a test that takes every error of spawn for a missing binary
IsENOENTAny(code) == TRUE

\* error.code === "ENOENT"
IsENOENT(code) == code = "ENOENT"

\* error.message of a spawn error (Node's text also names the command)
ErrorMessage(err) == TextOf("spawn EACCES")

\* child.on("error", ...): the error event of a spawn that failed
ErrorEvent(i) ==
    /\ pc[i] = "child"
    /\ child[i].state = "failed"
    /\ timer' = [timer EXCEPT ![i] = clearTimeout(@)]
    /\ IF IsENOENT(child[i].err)
       THEN /\ notFound' = [notFound EXCEPT ![i] = TRUE]
            /\ done(i, 127, stderr[i], TRUE, "error")
            /\ UNCHANGED stderr
       ELSE /\ stderr' = [stderr EXCEPT ![i] = @ \o ErrorMessage(child[i].err)]
            /\ done(i, 1, stderr[i] \o ErrorMessage(child[i].err), notFound[i], "error")
            /\ UNCHANGED notFound
    /\ child' = [child EXCEPT ![i].state = "errored"]
    /\ UNCHANGED <<stdout, timedOut, chunks, phase>>
    /\ UNCHANGED <<handlerVars, spawnLog, rmCalled, disk, usedIds>>

\* the exit code of the close event of a child that was never started: the
\* negative errno of the spawn
ErrnoOf(err) == IF err = "ENOENT" THEN -2 ELSE -13

\* child.on("close", ...) of a child whose spawn failed: Node emits close
\* after the error event, when the candidate has been resolved already and
\* runCandidates may have gone on
LateCloseEvent(i) ==
    /\ child[i].state = "errored"
    /\ timer' = [timer EXCEPT ![i] = clearTimeout(@)]
    /\ done(i, ErrnoOf(child[i].err), stderr[i], notFound[i], "close")
    /\ child' = [child EXCEPT ![i].state = "none"]
    /\ UNCHANGED <<stdout, stderr, timedOut, notFound, chunks, phase>>
    /\ UNCHANGED <<handlerVars, spawnLog, rmCalled, disk, usedIds>>

\* child.on("close", ...)
CloseEvent(i) ==
    /\ pc[i] = "child"
    /\ child[i].state = "exited"
    /\ timer' = [timer EXCEPT ![i] = clearTimeout(@)]
    /\ done(i, CloseExitCode(child[i]), stderr[i], notFound[i], "close")
    /\ child' = [child EXCEPT ![i].state = "none"]
    /\ UNCHANGED <<stdout, stderr, timedOut, notFound, chunks, phase>>
    /\ UNCHANGED <<handlerVars, spawnLog, rmCalled, disk, usedIds>>

(* ------------------------------------------------------------------ *)
(* POST, the try block and finally                                      *)
(* ------------------------------------------------------------------ *)
\* the return statements of the try block, or NoResponse when the run phase
\* of a compiled language is next
ResponseAfter(language, p, result) ==
    IF p = "direct" THEN DirectResponse(language, result)
    ELSE IF p = "run" THEN RunResponse(language, result)
    ELSE IF result.notFound \/ CompileFailed(result)
         THEN CompileResponse(language, result)
    ELSE NoResponse

\* runCandidates returned last to POST
POSTAfterSearch(i) ==
    /\ pc[i] = "searched"
    /\ IF ResponseAfter(LanguageOf(i), phase[i], last[i]).status # NoResponse.status
       THEN /\ pending' = [pending EXCEPT ![i] =
                  ResponseAfter(LanguageOf(i), phase[i], last[i])]
            /\ pc' = [pc EXCEPT ![i] = "cleanup"]
            /\ UNCHANGED <<compileResult, searchVars>>
       ELSE /\ compileResult' = [compileResult EXCEPT ![i] = last[i]]
            /\ EnterSearch(i, "run")
            /\ UNCHANGED pending
    /\ UNCHANGED <<roomVars, req, specs, platform, runDir, response>>
    /\ UNCHANGED <<commandVars, hostVars>>

\* everything under the invocation's directory, and the directory
Tree(dir) == { p \in disk : p.dir = dir }

\* a finally block whose fs.rm rejection replaces the pending return
AfterFinallyUncaught(pendingResponse, removed) ==
    IF removed THEN pendingResponse ELSE Thrown("fs.rm")

\* what leaves the handler after the finally block: the pending return or
\* throw, whether fs.rm removed the directory or failed (.catch(() => {}))
AfterFinally(pendingResponse, removed) == pendingResponse

\* finally { await fs.rm(runDir, { recursive: true, force: true }).catch(() => {}) }
\* and then the pending return or throw
POSTFinally(i) ==
    /\ pc[i] = "cleanup"
    /\ rmCalled' = [rmCalled EXCEPT ![i] = TRUE]
    /\ \E removed \in BOOLEAN :
        /\ disk' = IF removed THEN disk \ Tree(runDir[i]) ELSE disk
        /\ Finish(i, AfterFinally(pending[i], removed))
    /\ UNCHANGED <<roomVars, req, specs, platform, runDir, compileResult, pending>>
    /\ UNCHANGED <<searchVars, commandVars, spawnLog, runs, usedIds>>

(* ------------------------------------------------------------------ *)
(* Specification                                                        *)
(* ------------------------------------------------------------------ *)
Next ==
    \E i \in Invs :
        \/ POSTVerify(i)
        \/ POSTValidate(i)
        \/ POSTMkdir(i)
        \/ POSTWriteFile(i)
        \/ RunCommandSpawn(i)
        \/ StdoutData(i)
        \/ StderrData(i)
        \/ ChildExit(i)
        \/ TimerExpire(i)
        \/ ErrorEvent(i)
        \/ CloseEvent(i)
        \/ LateCloseEvent(i)
        \/ POSTAfterSearch(i)
        \/ POSTFinally(i)

Spec == Init /\ [][Next]_vars

(* ------------------------------------------------------------------ *)
(* Vocabulary of the properties                                         *)
(* ------------------------------------------------------------------ *)
\* the resolved runCommand calls of phase p, in order
RunsOf(i, p) == SelectSeq(runs[i], LAMBDA r : r.phase = p)

\* the spawn calls of phase p, in order
SpawnsOf(i, p) == SelectSeq(spawnLog[i], LAMBDA s : s.phase = p)

\* runCandidates has returned the result of the list of phase p
ListReturned(i, p) ==
    \/ /\ phase[i] = p
       /\ pc[i] \in {"searched", "cleanup", "done"}
       /\ Len(spawnLog[i]) = Len(runs[i])
    \/ p = "compile" /\ phase[i] = "run"

\* the value runCandidates returned for the list of phase p
ListResult(i, p) == IF phase[i] = p THEN last[i] ELSE compileResult[i]

\* a close event that carries the exit code of the program
HasExitCode(r) == r.event = "close" /\ ~r.status.codeIsNull

Phases == {"direct", "compile", "run"}

(* ------------------------------------------------------------------ *)
(* C1                                                                   *)
(* ------------------------------------------------------------------ *)
\* C1: once a candidate of a list resolved with notFound = false, no later
\* candidate of that list is spawned, and the exit code runCandidates
\* reports for the list is the one of that candidate: the code its close
\* event carried, whenever it carried one.
NonRetry ==
    \A i \in Invs : \A j \in 1..Len(runs[i]) :
        ~runs[i][j].result.notFound =>
            /\ \A k \in 1..Len(spawnLog[i]) :
                  k > j => spawnLog[i][k].phase # runs[i][j].phase
            /\ ListReturned(i, runs[i][j].phase) =>
                  /\ ListResult(i, runs[i][j].phase).exitCode
                        = runs[i][j].result.exitCode
                  /\ HasExitCode(runs[i][j]) =>
                        ListResult(i, runs[i][j].phase).exitCode
                            = runs[i][j].status.code

\* a program that exists exited nonzero while the list had a candidate left,
\* and the invocation answered
NonRetryWitness ==
    \E i \in Invs : \E j \in 1..Len(runs[i]) :
        /\ pc[i] = "done"
        /\ HasExitCode(runs[i][j])
        /\ runs[i][j].status.code = 1
        /\ runs[i][j].idx < Len(CandidatesOf(SpecOf(i), runs[i][j].phase))

(* ------------------------------------------------------------------ *)
(* C2                                                                   *)
(* ------------------------------------------------------------------ *)
\* C2: the candidates of a list are spawned in order; a list whose last
\* spawned candidate was missing (ENOENT) has returned only when every
\* candidate was spawned; and when candidates 1..k-1 were missing and
\* candidate k ran, the list's result is the outcome of candidate k
\* (its exit code, its output, its timeout flag) with notFound = false.
Fallback ==
    \A i \in Invs : \A p \in Phases :
        LET R == RunsOf(i, p)
            S == SpawnsOf(i, p)
        IN  /\ \A n \in 1..Len(S) : S[n].idx = n
            /\ \A n \in 1..Len(S) : n < Len(S) => S[n].outcome = "ENOENT"
            /\ (ListReturned(i, p) /\ Len(S) > 0 /\ S[Len(S)].outcome = "ENOENT")
                  => Len(S) = Len(CandidatesOf(SpecOf(i), p))
            /\ (ListReturned(i, p) /\ Len(R) > 0 /\ R[Len(R)].event = "close")
                  => /\ ListResult(i, p) = R[Len(R)].result
                     /\ ~ListResult(i, p).notFound
                     /\ ListResult(i, p).exitCode
                           = IF R[Len(R)].status.codeIsNull THEN 0
                             ELSE R[Len(R)].status.code
                     /\ ListResult(i, p).timedOut = (R[Len(R)].timer = "fired")

\* two candidates were missing, the third ran and ended with a code other
\* than 127, and the list returned
FallbackWitness ==
    \E i \in Invs : \E p \in Phases :
        /\ ListReturned(i, p)
        /\ Len(RunsOf(i, p)) = 3
        /\ HasExitCode(RunsOf(i, p)[3])
        /\ RunsOf(i, p)[3].status.code = 0
        /\ RunsOf(i, p)[3].result.stdout # <<>>

(* ------------------------------------------------------------------ *)
(* C3                                                                   *)
(* ------------------------------------------------------------------ *)
\* the invocation answered from the result of a program that was executed:
\* the last runCommand call resolved with notFound = false
AnsweredFromRun(i) ==
    /\ pc[i] = "done"
    /\ Len(runs[i]) > 0
    /\ Len(spawnLog[i]) = Len(runs[i])
    /\ ~runs[i][Len(runs[i])].result.notFound

FinalRun(i) == runs[i][Len(runs[i])]

\* the program was terminated by a signal other than the engine's SIGKILL
Crashed(r) == r.event = "close" /\ r.status.signal \in CrashSignals

\* C3: every invocation whose final phase executed a program answers with
\* status 200, and with ok = false whenever the program crashed (a signal
\* ended it, the close event has no exit code), exited nonzero or timed out.
CrashIsNotOk ==
    \A i \in Invs :
        AnsweredFromRun(i) =>
            /\ response[i].status = 200
            /\ (\/ Crashed(FinalRun(i))
                \/ (HasExitCode(FinalRun(i)) /\ FinalRun(i).status.code # 0)
                \/ FinalRun(i).result.timedOut)
               => (Has(response[i].body, "ok") /\ ~response[i].body.ok)

OutputCapped ==
    \A i \in Invs :
        /\ StrLen(stdout[i]) <= MAX_OUTPUT
        /\ StrLen(stderr[i]) <= MAX_OUTPUT
        /\ StrLen(last[i].stdout) <= MAX_OUTPUT
        /\ StrLen(last[i].stderr) <= MAX_OUTPUT
        /\ (pc[i] = "done" /\ Has(response[i].body, "stdout")) =>
              /\ StrLen(response[i].body.stdout) <= MAX_OUTPUT
              /\ StrLen(response[i].body.stderr) <= MAX_OUTPUT
        /\ (AnsweredFromRun(i) /\ HasExitCode(FinalRun(i))) =>
              response[i].body.exitCode = FinalRun(i).status.code

(* ------------------------------------------------------------------ *)
(* C6                                                                   *)
(* ------------------------------------------------------------------ *)
\* the compile search of the invocation has returned
Compiled(i) == ListReturned(i, "compile") /\ Len(SpawnsOf(i, "compile")) > 0

\* what the compile search ended with: the outcome of its last candidate
CompileRun(i) == RunsOf(i, "compile")[Len(RunsOf(i, "compile"))]

\* the compiler ran and ended with exit code 0 before its timer expired
CompileSucceeded(r) ==
    /\ r.event = "close"
    /\ CloseExitCode(r.status) = 0
    /\ r.timer # "fired"

\* C6: a run candidate of a compiled language is spawned only after the
\* compile search returned notFound = false, exitCode = 0, timedOut = false;
\* after a compiler that exited nonzero or timed out no run candidate is
\* spawned, and the response is status 200 with ok = false, no error field
\* and the compiler's exitCode, timedOut, stdout and stderr.
CompileGate ==
    \A i \in Invs :
        /\ Len(SpawnsOf(i, "run")) > 0 =>
              /\ Compiled(i)
              /\ CompileSucceeded(CompileRun(i))
              /\ ~compileResult[i].notFound
              /\ compileResult[i].exitCode = 0
              /\ ~compileResult[i].timedOut
        /\ (Compiled(i) /\ ~CompileRun(i).result.notFound
              /\ ~CompileSucceeded(CompileRun(i))) =>
              /\ Len(SpawnsOf(i, "run")) = 0
              /\ pc[i] = "done" =>
                    /\ response[i].status = 200
                    /\ DOMAIN response[i].body
                          = {"ok", "exitCode", "timedOut", "stdout", "stderr"}
                    /\ ~response[i].body.ok
                    /\ response[i].body.exitCode = CompileRun(i).result.exitCode
                    /\ response[i].body.timedOut = (CompileRun(i).timer = "fired")
                    /\ response[i].body.stdout = CompileRun(i).result.stdout
                    /\ response[i].body.stderr = CompileRun(i).result.stderr

\* a compiler that was killed at the timeout after it had written output, and
\* the invocation answered
CompileGateWitness ==
    \E i \in Invs :
        /\ pc[i] = "done"
        /\ Compiled(i)
        /\ CompileRun(i).timer = "fired"
        /\ CompileRun(i).status.signal = "SIGKILL"
        /\ CompileRun(i).result.stderr # <<>>

(* ------------------------------------------------------------------ *)
(* C7                                                                   *)
(* ------------------------------------------------------------------ *)
\* the tool-missing response
IsToolMissing(r) ==
    /\ r.status = 400
    /\ Has(r.body, "ok") /\ ~r.body.ok
    /\ Has(r.body, "exitCode") /\ r.body.exitCode = 127
    /\ Has(r.body, "timedOut") /\ ~r.body.timedOut
    /\ Has(r.body, "error")

\* every candidate of the list that was searched last was spawned and
\* resolved with notFound = true
AllNotFound(i) ==
    /\ phase[i] \in Phases
    /\ Len(spawnLog[i]) = Len(runs[i])
    /\ Len(RunsOf(i, phase[i])) = Len(CandidatesOf(SpecOf(i), phase[i]))
    /\ \A n \in 1..Len(RunsOf(i, phase[i])) :
          /\ RunsOf(i, phase[i])[n].result.notFound
          /\ RunsOf(i, phase[i])[n].event = "error"
          /\ RunsOf(i, phase[i])[n].status.err = "ENOENT"

\* C7: the response is the tool-missing response (status 400, ok = false,
\* exitCode = 127, timedOut = false, an error message) if and only if every
\* candidate of the phase being searched resolved with notFound = true.
ToolMissingIff ==
    \A i \in Invs :
        pc[i] = "done" => (IsToolMissing(response[i]) <=> AllNotFound(i))

\* the runtime of a compiled program is missing, and the invocation answered
ToolMissingWitness ==
    \E i \in Invs :
        /\ pc[i] = "done"
        /\ IsToolMissing(response[i])
        /\ phase[i] = "run"
        /\ Len(RunsOf(i, "run")) = Len(CandidatesOf(SpecOf(i), "run"))
        /\ Len(RunsOf(i, "run")) > 0

\* a program that exists ended with exit code 127, and the invocation answered
ExitCode127Witness ==
    \E i \in Invs :
        /\ AnsweredFromRun(i)
        /\ HasExitCode(FinalRun(i))
        /\ FinalRun(i).status.code = 127

(* ------------------------------------------------------------------ *)
(* C8                                                                   *)
(* ------------------------------------------------------------------ *)
\* every candidate of the list of phase p was spawned and was missing
ListMissing(i, p) ==
    /\ Len(SpawnsOf(i, p)) = Len(CandidatesOf(SpecOf(i), p))
    /\ Len(RunsOf(i, p)) = Len(CandidatesOf(SpecOf(i), p))
    /\ \A n \in 1..Len(SpawnsOf(i, p)) : SpawnsOf(i, p)[n].outcome = "ENOENT"

ErrorOf(r) == IF Has(r.body, "error") THEN r.body.error ELSE <<>>

\* C8: for a compiled language, every compile candidate missing gives the
\* error 'No installed compiler found for <language>.' and no run candidate
\* is spawned; a compile that succeeded followed by every run candidate
\* missing gives 'Compiled <language>, but executable runtime is missing.';
\* neither message is given in any other case.
MissingPhaseDistinct ==
    \A i \in Invs :
        (pc[i] = "done" /\ phase[i] \in {"compile", "run"}) =>
            LET lang == LanguageOf(i)
                noCompiler == <<"No installed compiler found for ", lang, ".">>
                noRuntime == <<"Compiled ", lang, ", but executable runtime is missing.">>
                compileMissing == ListMissing(i, "compile")
                runMissing ==
                    /\ Compiled(i)
                    /\ CompileSucceeded(CompileRun(i))
                    /\ ListMissing(i, "run")
            IN  /\ compileMissing =>
                      /\ ErrorOf(response[i]) = noCompiler
                      /\ Len(SpawnsOf(i, "run")) = 0
                /\ runMissing => ErrorOf(response[i]) = noRuntime
                /\ ErrorOf(response[i]) = noCompiler => compileMissing
                /\ ErrorOf(response[i]) = noRuntime => runMissing
                /\ ~(compileMissing /\ runMissing)

\* the program was compiled and every run candidate was missing
MissingPhaseWitness ==
    \E i \in Invs :
        /\ pc[i] = "done"
        /\ Compiled(i)
        /\ CompileSucceeded(CompileRun(i))
        /\ ListMissing(i, "run")
        /\ Len(RunsOf(i, "compile")) = Len(CandidatesOf(SpecOf(i), "compile"))
        /\ Len(RunsOf(i, "run")) > 0

(* ------------------------------------------------------------------ *)
(* C9                                                                   *)
(* ------------------------------------------------------------------ *)
\* fs.mkdir created the directory of the invocation
CreatedDir(i) == runDir[i] # "" /\ response[i].body # Thrown("fs.mkdir").body

\* C9: for every invocation that created a workspace directory, fs.rm has
\* been called for that directory by the time the invocation ends, on every
\* exit path: a result, a tool-missing result, a compile failure, an
\* exception.
CleanupOnEveryPath ==
    \A i \in Invs :
        (pc[i] = "done" /\ CreatedDir(i)) => rmCalled[i]

(* ------------------------------------------------------------------ *)
(* C10                                                                  *)
(* ------------------------------------------------------------------ *)
\* the request was accepted by verifyApiSecurity, its body is JSON, and its
\* language is one the table marks unsupported
UnsupportedRequest(i) ==
    /\ req[i].security.ok
    /\ req[i].body.valid
    /\ req[i].body.language.type = "string"
    /\ req[i].body.language.value \in DOMAIN LANGUAGE_SPECS
    /\ LANGUAGE_SPECS[req[i].body.language.value].kind = "unsupported"

\* the answer to a language that is unsupported for the given reason, given
\* without a directory, a file or a process
RejectedAsUnsupported(i, reason) ==
    /\ response[i].status = 400
    /\ DOMAIN response[i].body
          = {"ok", "exitCode", "timedOut", "stdout", "stderr", "error"}
    /\ ~response[i].body.ok
    /\ response[i].body.exitCode = 2
    /\ ~response[i].body.timedOut
    /\ StrLen(response[i].body.stdout) = 0
    /\ response[i].body.stderr = <<[text |-> reason, len |-> Length[reason]]>>
    /\ response[i].body.error = <<reason>>
    /\ runDir[i] = ""
    /\ disk = {}
    /\ spawnLog[i] = <<>>

\* C10 as stated: for every unsupported language and any submitted code the
\* response is status 400 with ok = false, exitCode = 2, timedOut = false,
\* empty stdout, stderr and error equal to the language's reason, and no
\* directory, file or process is created.
UnsupportedAnyCode ==
    \A i \in Invs :
        (pc[i] = "done" /\ UnsupportedRequest(i)) =>
            RejectedAsUnsupported(i, LANGUAGE_SPECS[req[i].body.language.value].reason)

\* the submitted code is a string with a character that trim() keeps
NonBlankCode(i) ==
    /\ req[i].body.code.type = "string"
    /\ \E n \in 1..Len(req[i].body.code.value) :
          req[i].body.code.value[n] \notin Whitespace

\* C10 amended: the same, for submitted code that is a string with at least
\* one non-whitespace character.
UnsupportedNonBlankCode ==
    \A i \in Invs :
        (pc[i] = "done" /\ UnsupportedRequest(i) /\ NonBlankCode(i)) =>
            RejectedAsUnsupported(i, LANGUAGE_SPECS[req[i].body.language.value].reason)

\* a request for PL/SQL with code in it was answered
UnsupportedWitness ==
    \E i \in Invs :
        /\ pc[i] = "done"
        /\ UnsupportedRequest(i)
        /\ NonBlankCode(i)
        /\ req[i].body.language.value = "plsql"

(* ------------------------------------------------------------------ *)
(* C11                                                                  *)
(* ------------------------------------------------------------------ *)
\* the request was accepted by verifyApiSecurity and its body is JSON
Parsed(i) == req[i].security.ok /\ req[i].body.valid

\* the language of the request is one the table runs (direct or compile)
ExecutableRequest(i) ==
    /\ Parsed(i)
    /\ req[i].body.language.type = "string"
    /\ req[i].body.language.value \in DOMAIN LANGUAGE_SPECS
    /\ LANGUAGE_SPECS[req[i].body.language.value].kind \in {"direct", "compile"}

\* the submitted code is empty, whitespace-only or not a string
BlankCode(i) ==
    \/ req[i].body.code.type # "string"
    \/ \A n \in 1..Len(req[i].body.code.value) :
          req[i].body.code.value[n] \in Whitespace

\* the invocation never made a directory and never spawned a process
NothingAllocated(i) ==
    /\ runDir[i] = ""
    /\ Tree(runDir[i]) = {}
    /\ spawnLog[i] = <<>>
    /\ child[i].state = "none"

\* C11: for every language with a direct or compile spec, a request whose
\* code is empty, whitespace-only or not a string is rejected with a
\* status-400 validation error; no workspace directory is created and no
\* process is spawned for it, at any point of the invocation.
BlankCodeRejected ==
    \A i \in Invs :
        (ExecutableRequest(i) /\ BlankCode(i)) =>
            /\ NothingAllocated(i)
            /\ pc[i] \in {"idle", "verify", "body", "done"}
            /\ pc[i] = "done" =>
                  /\ response[i].status = 400
                  /\ DOMAIN response[i].body = {"error"}
                  /\ response[i].body.error = <<"Code is empty.">>

\* a request for a compiled language with whitespace for code was answered,
\* and so was one whose code is a number
BlankCodeWitness ==
    \E i \in Invs :
        /\ pc[i] = "done"
        /\ ExecutableRequest(i)
        /\ LANGUAGE_SPECS[req[i].body.language.value].kind = "compile"
        /\ req[i].body.code.type = "string"
        /\ Len(req[i].body.code.value) > 0
        /\ BlankCode(i)

(* ------------------------------------------------------------------ *)
(* C12                                                                  *)
(* ------------------------------------------------------------------ *)
\* the language of the request is not an identifier of the language table
UnknownLanguage(i) ==
    \/ req[i].body.language.type # "string"
    \/ req[i].body.language.value \notin DOMAIN LANGUAGE_SPECS

\* C12: a request whose language is not one of the identifiers of the
\* language table (a non-string value, a differently-cased name, a name of
\* an inherited object property) is rejected with status 400, and never has
\* a workspace directory or a process.
UnknownLanguageRejected ==
    \A i \in Invs :
        (Parsed(i) /\ UnknownLanguage(i)) =>
            /\ NothingAllocated(i)
            /\ pc[i] \in {"idle", "verify", "body", "done"}
            /\ pc[i] = "done" =>
                  /\ response[i].status = 400
                  /\ DOMAIN response[i].body = {"error"}
                  /\ NonBlankCode(i) =>
                        response[i].body.error = <<"Unsupported language.">>

\* requests with code for 'Python', for 'constructor' and for a number were
\* answered
UnknownLanguageWitness ==
    \E i \in Invs :
        /\ pc[i] = "done"
        /\ Parsed(i)
        /\ NonBlankCode(i)
        /\ req[i].body.language.type = "string"
        /\ req[i].body.language.value \in {"Python", "constructor"}

(* ------------------------------------------------------------------ *)
(* C13                                                                  *)
(* ------------------------------------------------------------------ *)
\* the invocation answered with status 200
Answered200(i) == pc[i] = "done" /\ response[i].status = 200

\* C13: in every status-200 response (direct run, compiled run, compile
\* failure) ok is true exactly when exitCode is 0 and timedOut is false,
\* and exitCode, timedOut, stdout and stderr are those of the result of the
\* last runCommand call of the last phase that ran.
StructuredResult ==
    \A i \in Invs :
        Answered200(i) =>
            /\ DOMAIN response[i].body =
                  {"ok", "exitCode", "timedOut", "stdout", "stderr"}
            /\ response[i].body.ok =
                  (response[i].body.exitCode = 0 /\ ~response[i].body.timedOut)
            /\ Len(runs[i]) > 0
            /\ FinalRun(i).phase = phase[i]
            /\ response[i].body.exitCode = FinalRun(i).result.exitCode
            /\ response[i].body.timedOut = FinalRun(i).result.timedOut
            /\ response[i].body.stdout = FinalRun(i).result.stdout
            /\ response[i].body.stderr = FinalRun(i).result.stderr

\* a compile failure was answered with status 200 and the compiler's output
StructuredResultWitness ==
    \E i \in Invs :
        /\ Answered200(i)
        /\ phase[i] = "compile"
        /\ FinalRun(i).result.exitCode = 1
        /\ response[i].body.stderr # <<>>

\* a run that timed out with exit code 0 was answered with ok = false
StructuredTimeoutWitness ==
    \E i \in Invs :
        /\ Answered200(i)
        /\ phase[i] = "run"
        /\ response[i].body.timedOut
        /\ response[i].body.exitCode = 0
        /\ ~response[i].body.ok

(* ------------------------------------------------------------------ *)
(* C14                                                                  *)
(* ------------------------------------------------------------------ *)
Is2xx(status) == status >= 200 /\ status < 300

\* the request failed input validation: empty code or unrecognized language
ValidationFailed(i) == Parsed(i) /\ (BlankCode(i) \/ UnknownLanguage(i))

\* every candidate of the phase searched last was not found
ToolMissing(i) == Parsed(i) /\ AllNotFound(i)

\* verifyApiSecurity rejected the request
SecurityRejected(i) == ~req[i].security.ok

\* an exception left the handler: request.json() threw, fs.mkdir or
\* fs.writeFile failed before a phase was entered, or spawn threw
HandlerThrew(i) ==
    \/ req[i].security.ok /\ ~req[i].body.valid
    \/ runDir[i] # "" /\ phase[i] = "none"
    \/ /\ Len(spawnLog[i]) > 0
       /\ spawnLog[i][Len(spawnLog[i])].outcome = "throw"

\* C14: a request gets a non-2xx response only when it failed input
\* validation (empty code, unrecognized language), its language is
\* unsupported, or every candidate of a required phase was not found; every
\* other request gets a 2xx structured result.
OnlyListedFailures ==
    \A i \in Invs :
        pc[i] = "done" =>
            (~Is2xx(response[i].status) <=>
                (ValidationFailed(i) \/ UnsupportedRequest(i) \/ ToolMissing(i)))

\* C14 amended: a request gets a non-2xx response exactly when
\* verifyApiSecurity rejected it (its status), an exception left the
\* handler (500), it failed input validation, its language is unsupported
\* or every candidate of a required phase was not found (400); every other
\* request gets a status-200 structured result.
FailureCauses ==
    \A i \in Invs :
        pc[i] = "done" =>
            /\ ~Is2xx(response[i].status) <=>
                  \/ SecurityRejected(i)
                  \/ HandlerThrew(i)
                  \/ ValidationFailed(i)
                  \/ UnsupportedRequest(i)
                  \/ ToolMissing(i)
            /\ SecurityRejected(i) =>
                  /\ response[i].status = req[i].security.status
                  /\ response[i].status \in {401, 403}
            /\ (~SecurityRejected(i) /\ HandlerThrew(i)) =>
                  response[i].status = 500
            /\ (~SecurityRejected(i) /\ ~HandlerThrew(i)) =>
                  response[i].status \in {200, 400}
            /\ Is2xx(response[i].status) =>
                  DOMAIN response[i].body =
                      {"ok", "exitCode", "timedOut", "stdout", "stderr"}

\* a request that passed validation was answered 500 after fs.writeFile
\* failed
FailureCausesWitness ==
    \E i \in Invs :
        /\ pc[i] = "done"
        /\ response[i].status = 500
        /\ PathJoin(runDir[i], <<>>) \in disk
        /\ ~rmCalled[i]
        /\ ~ValidationFailed(i) /\ ~UnsupportedRequest(i) /\ ~ToolMissing(i)

(* ------------------------------------------------------------------ *)
(* Two invocations in flight                                            *)
(* ------------------------------------------------------------------ *)
\* the languages of the requests that are in flight together
ConcLanguages == {"javascript", "go"}

\* requests that reach the workspace: accepted, with code, for a language
\* that is run
ConcRequests ==
    { [security |-> SecurityOk,
       body |-> [valid |-> TRUE,
                 code |-> [type |-> "string", value |-> <<" ", "x", " ">>],
                 language |-> [type |-> "string", value |-> l]]] :
        l \in ConcLanguages }

\* both invocations have been received and none has run a step; the one
\* that is named 1 is for javascript, the other for the same or another
\* language
InitConc ==
    /\ InitCommon
    /\ registry = InMemory
    /\ specs = LANGUAGE_SPECS
    /\ req \in [Invs -> ConcRequests]
    /\ req[1].body.language.value = "javascript"
    /\ pc = [i \in Invs |-> "verify"]

\* a step of invocation i, for programs that end without writing output
ConcStep(i) ==
    \/ POSTVerify(i)
    \/ POSTValidate(i)
    \/ POSTMkdir(i)
    \/ POSTWriteFile(i)
    \/ RunCommandSpawn(i)
    \/ ChildExit(i)
    \/ TimerExpire(i)
    \/ ErrorEvent(i)
    \/ CloseEvent(i)
    \/ LateCloseEvent(i)
    \/ POSTAfterSearch(i)
    \/ POSTFinally(i)

NextConc == \E i \in Invs : ConcStep(i)

SpecConc == InitConc /\ [][NextConc]_vars

(* ------------------------------------------------------------------ *)
(* C15                                                                  *)
(* ------------------------------------------------------------------ *)
\* everything invocation i owns: its request, its locals in POST,
\* runCandidates and runCommand, and what the host recorded for it
Own(i) ==
    <<req[i], pc[i], runDir[i], phase[i], idx[i], last[i], compileResult[i],
      child[i], stdout[i], stderr[i], finished[i], timedOut[i], notFound[i],
      timer[i], chunks[i], pending[i], response[i], spawnLog[i], runs[i],
      rmCalled[i]>>

\* the paths a materialized candidate names
PathsOf(candidate) ==
    { candidate.command[n] : n \in { m \in 1..Len(candidate.command) :
                                        candidate.command[m].kind = "path" } }
    \cup UNION { { candidate.args[a][n] :
                     n \in { m \in 1..Len(candidate.args[a]) :
                                candidate.args[a][m].kind = "path" } } :
                 a \in 1..Len(candidate.args) }

\* the directories of two invocations are distinct, and every {file}, {exe}
\* and {dir} an invocation passed to spawn lies in its own directory
OwnWorkspace ==
    /\ \A i, j \in Invs :
          (i # j /\ runDir[i] # "" /\ runDir[j] # "") => runDir[i] # runDir[j]
    /\ \A i \in Invs : \A n \in 1..Len(spawnLog[i]) :
          /\ PathsOf(spawnLog[i][n].candidate) # {}
          /\ \A p \in PathsOf(spawnLog[i][n].candidate) :
                /\ p.dir = runDir[i]
                /\ \A j \in Invs \ {i} : p.dir # runDir[j]
    /\ \A p \in disk : \E i \in Invs : p.dir = runDir[i]

\* a step of invocation i leaves the other invocation as it was, removes
\* only files of its own directory and creates files only there
OwnStep ==
    \A i \in Invs :
        Own(i)' # Own(i) =>
            /\ \A j \in Invs \ {i} :
                  /\ Own(j)' = Own(j)
                  /\ Tree(runDir[j])' = Tree(runDir[j])
            /\ \A p \in disk \ disk' : p.dir = runDir[i]
            /\ \A p \in disk' \ disk : p.dir = runDir'[i]

\* the response of an invocation is the value of its own request and of
\* its own runCommand results
OwnResponse ==
    \A i \in Invs :
        (pc[i] = "done" /\ Len(runs[i]) > 0 /\ Len(runs[i]) = Len(spawnLog[i])) =>
            response[i] =
                ResponseAfter(LanguageOf(i), FinalRun(i).phase, FinalRun(i).result)

\* C15: for any two invocations in flight at the same time (same or
\* different language) the workspace directories are distinct, each
\* invocation's {file}, {exe} and {dir} paths lie inside its own directory,
\* an invocation's cleanup removes only its own directory, and no step of
\* one invocation changes anything the other reads, so that the response
\* of one does not depend on how the steps of the other are interleaved.
Isolation == [](OwnWorkspace /\ OwnResponse) /\ [][OwnStep]_vars

\* one invocation has removed its directory and answered while the child
\* of the other, for another language, runs on the file of the other
IsolationWitness ==
    \E i, j \in Invs :
        /\ i # j
        /\ LanguageOf(i) # LanguageOf(j)
        /\ pc[i] = "done" /\ rmCalled[i] /\ Tree(runDir[i]) = {}
        /\ pc[j] = "child" /\ phase[j] = "run"
        /\ PathJoin(runDir[j], FileNameOf(SpecOf(j))) \in disk

(* ------------------------------------------------------------------ *)
(* C16                                                                  *)
(* ------------------------------------------------------------------ *)
\* fs.rm of the finally block failed: the directory is still on disk
RemovalFailed(i) ==
    pc[i] = "done" /\ rmCalled[i] /\ PathJoin(runDir[i], <<>>) \in disk

\* what the try block left pending, computed from the invocation's own
\* results: a return value, or the exception of spawn
OutcomeOfTry(i) ==
    IF spawnLog[i][Len(spawnLog[i])].outcome = "throw"
    THEN Thrown("spawn")
    ELSE ResponseAfter(LanguageOf(i), phase[i], FinalRun(i).result)

\* C16: a failure of the workspace removal never changes the outcome of an
\* invocation: the response (status and body) is the one the try block
\* left, whether fs.rm removed the directory or failed, and the error of
\* fs.rm is never thrown to the caller.
RemovalNeverMasks ==
    \A i \in Invs :
        (pc[i] = "done" /\ rmCalled[i]) =>
            /\ response[i] = pending[i]
            /\ response[i] # Thrown("fs.rm")
            /\ Len(spawnLog[i]) > 0 => response[i] = OutcomeOfTry(i)

\* the removal failed after a program ran, and the invocation answered 200
RemovalFailedWitness ==
    \E i \in Invs :
        /\ RemovalFailed(i)
        /\ response[i].status = 200
        /\ response[i].body.ok

(* ------------------------------------------------------------------ *)
(* C17                                                                  *)
(* ------------------------------------------------------------------ *)
\* the text s appears unchanged in the text t
IsInfix(s, t) ==
    \E a \in 0..(Len(t) - Len(s)) : SubSeq(t, a + 1, a + Len(s)) = s

\* a stream of the response; the empty text when the body has no such field
StreamOf(r, field) == IF Has(r.body, field) THEN r.body[field] ELSE <<>>

\* the text captured from process n of invocation i is in the response
OutputKept(i, n) ==
    /\ IsInfix(runs[i][n].captured.stdout, StreamOf(response[i], "stdout"))
    /\ IsInfix(runs[i][n].captured.stderr, StreamOf(response[i], "stderr"))

\* C17: every character captured (up to the cap) from the stdout or stderr
\* of any process an invocation ran, in the compile phase as well as the run
\* phase, appears unchanged in the stdout or stderr of the response.
AllOutputKept ==
    \A i \in Invs :
        pc[i] = "done" => \A n \in 1..Len(runs[i]) : OutputKept(i, n)

\* the invocation answered with the result of its last process
AnsweredWithResult(i) ==
    /\ pc[i] = "done"
    /\ Len(runs[i]) > 0
    /\ Len(spawnLog[i]) = Len(runs[i])

\* C17 amended: when an invocation answers with a result, every character
\* captured from the stdout or stderr of the last process it ran (the last
\* candidate of the last phase) appears unchanged in the same stream of the
\* response: stdout is the captured stdout, and stderr is the captured
\* stderr, followed by the error message when the process could not start.
LastOutputKept ==
    \A i \in Invs :
        AnsweredWithResult(i) =>
            /\ Has(response[i].body, "stdout")
            /\ Has(response[i].body, "stderr")
            /\ response[i].body.stdout = FinalRun(i).captured.stdout
            /\ SubSeq(response[i].body.stderr, 1,
                      Len(FinalRun(i).captured.stderr))
                  = FinalRun(i).captured.stderr
            /\ response[i].body.stderr # FinalRun(i).captured.stderr =>
                  /\ FinalRun(i).event = "error"
                  /\ FinalRun(i).status.err # "ENOENT"

\* a compiler wrote to stderr and succeeded, the program ran, and the
\* response has the program's output
LastOutputKeptWitness ==
    \E i \in Invs :
        /\ AnsweredWithResult(i)
        /\ phase[i] = "run"
        /\ compileResult[i].stderr # <<>>
        /\ FinalRun(i).captured.stdout # <<>>
        /\ response[i].status = 200

(* ------------------------------------------------------------------ *)
(* C18                                                                  *)
(* ------------------------------------------------------------------ *)
\* the candidate that was spawned last has been resolved
Resolved(i) == Len(runs[i]) > 0 /\ Len(runs[i]) = Len(spawnLog[i])

\* C18: each spawned candidate has its own timer, armed at its spawn and
\* cancelled by its close or error event: no timer is armed once the result
\* of its candidate has been resolved, a child that has just been spawned
\* is neither killed nor marked as timed out, and a candidate is killed or
\* marked as timed out exactly when the timer armed at its own spawn fired.
TimerPerCandidate ==
    \A i \in Invs :
        /\ finished[i] => timer[i] # "armed"
        /\ pc[i] # "child" => timer[i] # "armed"
        /\ Resolved(i) => timer[i] = "cleared"
        /\ (pc[i] = "child" /\ timer[i] = "armed") =>
              /\ ~timedOut[i]
              /\ ~child[i].killCalled
              /\ ~finished[i]
        /\ \A n \in 1..Len(runs[i]) :
              /\ runs[i][n].timer \in {"armed", "fired"}
              /\ runs[i][n].result.timedOut <=> runs[i][n].timer = "fired"
              /\ runs[i][n].status.killCalled <=> runs[i][n].timer = "fired"
              /\ runs[i][n].status.signal = "SIGKILL" =>
                    runs[i][n].timer = "fired"

\* the timer of a compiler was cancelled at its close event, and the timer
\* of the program that ran next fired and killed the program
TimerPerCandidateWitness ==
    \E i \in Invs :
        /\ Len(runs[i]) = 2
        /\ runs[i][1].phase = "compile"
        /\ runs[i][1].timer = "armed"
        /\ ~runs[i][1].result.timedOut
        /\ runs[i][2].phase = "run"
        /\ runs[i][2].timer = "fired"
        /\ runs[i][2].status.signal = "SIGKILL"
        /\ timer[i] = "cleared"

\* a second candidate runs with its timer armed after the first candidate
\* was not found
TimerRearmedWitness ==
    \E i \in Invs :
        /\ pc[i] = "child"
        /\ idx[i] = 2
        /\ timer[i] = "armed"
        /\ child[i].state = "running"

(* ------------------------------------------------------------------ *)
(* C19                                                                  *)
(* ------------------------------------------------------------------ *)
\* runCommand call n of invocation i ended with an error event whose code
\* is not ENOENT
OtherError(i, n) ==
    runs[i][n].event = "error" /\ runs[i][n].status.err # "ENOENT"

\* C19: when the error event of a child carries a code other than ENOENT,
\* the result of the candidate has exitCode = 1 and notFound = false, its
\* stderr is the stderr captured so far followed by the error message, and
\* the search stops: no further candidate of the list is spawned.
OtherErrorIsTerminal ==
    \A i \in Invs : \A n \in 1..Len(runs[i]) :
        OtherError(i, n) =>
            /\ runs[i][n].result.exitCode = 1
            /\ ~runs[i][n].result.notFound
            /\ ~runs[i][n].result.timedOut
            /\ runs[i][n].result.stdout = runs[i][n].captured.stdout
            /\ runs[i][n].result.stderr =
                  runs[i][n].captured.stderr \o ErrorMessage(runs[i][n].status.err)
            /\ n = Len(runs[i])
            /\ Len(spawnLog[i]) = n
            /\ pc[i] \in {"searched", "cleanup", "done"}
            /\ ListResult(i, runs[i][n].phase) = runs[i][n].result

\* the first of two candidates could not be started for another reason than
\* a missing binary, and the invocation answered without spawning the second
OtherErrorWitness ==
    \E i \in Invs :
        /\ pc[i] = "done"
        /\ Len(runs[i]) = 1
        /\ OtherError(i, 1)
        /\ Len(CandidatesOf(SpecOf(i), runs[i][1].phase)) > 1
        /\ response[i].status = 200
        /\ response[i].body.exitCode = 1

(* ------------------------------------------------------------------ *)
(* runCandidates over candidate lists of every length                   *)
(* ------------------------------------------------------------------ *)
\* the languages whose candidate list is drawn
ListLanguages == {"javascript", "python"}

\* language tables whose list for one language is the list of the table or
\* the empty list
ListTables ==
    {LANGUAGE_SPECS}
    \cup { [LANGUAGE_SPECS EXCEPT ![l].candidates = <<>>] : l \in ListLanguages }

\* requests that reach runCandidates
ListRequests ==
    { [security |-> SecurityOk,
       body |-> [valid |-> TRUE,
                 code |-> [type |-> "string", value |-> <<" ", "x", " ">>],
                 language |-> [type |-> "string", value |-> l]]] :
        l \in ListLanguages }

InitLists ==
    /\ InitCommon
    /\ registry = InMemory
    /\ specs \in ListTables
    /\ \E r \in ListRequests : req = [i \in Invs |-> r]
    /\ pc = [i \in Invs |-> IF i = 1 THEN "verify" ELSE "idle"]

SpecLists == InitLists /\ [][Next]_vars

(* ------------------------------------------------------------------ *)
(* C20                                                                  *)
(* ------------------------------------------------------------------ *)
\* C20: runCandidates returns exactly the result of the last candidate it
\* spawned, whether the list was exhausted as not found or the search
\* stopped early; for an empty candidate list it returns the initial value
\* {exitCode: 127, stdout: '', stderr: '', timedOut: false, notFound: true}.
ListIsLast ==
    \A i \in Invs : \A p \in Phases :
        ListReturned(i, p) =>
            IF Len(CandidatesOf(SpecOf(i), p)) = 0
            THEN /\ Len(SpawnsOf(i, p)) = 0
                 /\ ListResult(i, p) =
                       [exitCode |-> 127, stdout |-> <<>>, stderr |-> <<>>,
                        timedOut |-> FALSE, notFound |-> TRUE]
            ELSE /\ Len(SpawnsOf(i, p)) > 0
                 /\ Len(RunsOf(i, p)) = Len(SpawnsOf(i, p))
                 /\ ListResult(i, p) = RunsOf(i, p)[Len(RunsOf(i, p))].result
                 /\ \/ ~ListResult(i, p).notFound
                    \/ Len(SpawnsOf(i, p)) = Len(CandidatesOf(SpecOf(i), p))

\* runCandidates returned for an empty list, and POST answered that no
\* runtime is installed
EmptyListWitness ==
    \E i \in Invs :
        /\ pc[i] = "done"
        /\ ListReturned(i, "direct")
        /\ Len(CandidatesOf(SpecOf(i), "direct")) = 0
        /\ spawnLog[i] = <<>>
        /\ last[i].notFound
        /\ response[i].status = 400

\* runCandidates returned the result of the second of two candidates
SecondCandidateWitness ==
    \E i \in Invs :
        /\ ListReturned(i, "direct")
        /\ Len(RunsOf(i, "direct")) = 2
        /\ ~last[i].notFound
        /\ last[i].stdout # <<>>

(* ------------------------------------------------------------------ *)
(* C21                                                                  *)
(* ------------------------------------------------------------------ *)
\* the step is an event of the candidate that was spawned last: no spawn
SameCandidate(i) == Len(spawnLog[i])' = Len(spawnLog[i])

\* the text s is the beginning of the text t
IsPrefix(s, t) == Len(s) <= Len(t) /\ SubSeq(t, 1, Len(s)) = s

\* an accumulator that reached the cap is left as it is by the step, and one
\* that did not is only appended to
CapStep(acc, next) ==
    /\ StrLen(acc) >= MAX_OUTPUT => next = acc
    /\ IsPrefix(acc, next)

PipesAlwaysRead ==
    \A i \in Invs :
        /\ (PipesOpen(i) /\ chunks[i] < MaxChunks) =>
              /\ ENABLED StdoutData(i)
              /\ ENABLED StderrData(i)
        /\ (pc[i] = "child" /\ child[i].state = "running") => ENABLED ChildExit(i)
        /\ (pc[i] = "child" /\ child[i].state = "exited") => ENABLED CloseEvent(i)

\* a program wrote to stdout after stdout had reached the cap, ended by
\* itself with exit code 0, and its close event resolved the candidate
PipesAlwaysReadWitness ==
    \E i \in Invs :
        /\ Resolved(i)
        /\ FinalRun(i).event = "close"
        /\ HasExitCode(FinalRun(i))
        /\ FinalRun(i).status.code = 0
        /\ ~FinalRun(i).result.timedOut
        /\ StrLen(FinalRun(i).captured.stdout) >= MAX_OUTPUT
        /\ Len(FinalRun(i).captured.stdout) = 1
        /\ Len(FinalRun(i).captured.stderr) = 0
        /\ chunks[i] = 2

(* ------------------------------------------------------------------ *)
(* C23                                                                  *)
(* ------------------------------------------------------------------ *)
\* the timer of runCommand call n expired while its child was running: the
\* child was ended by the SIGKILL of the timer callback
ExpiredWhileRunning(r) == r.timer = "fired" /\ r.status.signal = "SIGKILL"

\* the child of runCommand call n ended by itself: with an exit code, or by
\* a signal that is not the engine's
ExitedOnItsOwn(r) ==
    r.event = "close" /\ (HasExitCode(r) \/ r.status.signal \in CrashSignals)

\* C23: the result of a candidate has timedOut = true only if the timer
\* expired while the child was still running; a child that exited on its own
\* before the expiry is never reported as timed out, even when its close
\* event is delivered after the expiry.
TimedOutOnlyIfRunning ==
    \A i \in Invs : \A n \in 1..Len(runs[i]) :
        /\ runs[i][n].result.timedOut => ExpiredWhileRunning(runs[i][n])
        /\ ExitedOnItsOwn(runs[i][n]) => ~runs[i][n].result.timedOut

(* ------------------------------------------------------------------ *)
(* C24                                                                  *)
(* ------------------------------------------------------------------ *)
\* the child of the candidate spawned last exists: it was started or is
\* being started, and its terminal event has not been delivered
ChildExists(i) == child[i].state \in {"running", "exited", "failed"}

\* C24: within one invocation at most one child process exists at any time:
\* a candidate is spawned only after the result of the previous candidate
\* has been resolved, and the first candidate of the run phase only after
\* the result of the compile phase has been resolved.
OneChildAtATime ==
    \A i \in Invs :
        /\ Len(spawnLog[i]) \in {Len(runs[i]), Len(runs[i]) + 1}
        /\ ChildExists(i) => (pc[i] = "child" /\ Len(spawnLog[i]) = Len(runs[i]) + 1)
        /\ pc[i] = "search" => (Len(spawnLog[i]) = Len(runs[i]) /\ ~ChildExists(i))
        /\ \A n \in 1..Len(runs[i]) :
              /\ runs[i][n].phase = spawnLog[i][n].phase
              /\ runs[i][n].idx = spawnLog[i][n].idx
        /\ Len(SpawnsOf(i, "run")) > 0 =>
              /\ Len(RunsOf(i, "compile")) = Len(SpawnsOf(i, "compile"))
              /\ Len(RunsOf(i, "compile")) > 0
              /\ compileResult[i] = CompileRun(i).result
              /\ spawnLog[i][Len(RunsOf(i, "compile")) + 1].phase = "run"

\* the program of a compiled language runs; its compiler, the only child
\* before it, has been resolved by its close event
OneChildWitness ==
    \E i \in Invs :
        /\ pc[i] = "child"
        /\ phase[i] = "run"
        /\ child[i].state = "running"
        /\ Len(spawnLog[i]) = 2
        /\ Len(runs[i]) = 1
        /\ runs[i][1].event = "close"
        /\ runs[i][1].status.state = "exited"

(* ------------------------------------------------------------------ *)
(* C25                                                                  *)
(* ------------------------------------------------------------------ *)
\* r is, but for its exit code, the result that the closure of invocation i
\* holds once the step is taken
ResultNow(i, r) ==
    /\ r.result.stdout = stdout'[i]
    /\ r.result.stderr = stderr'[i]
    /\ r.result.timedOut = timedOut'[i]
    /\ r.result.notFound = notFound'[i]
    /\ r.captured = [stdout |-> stdout[i], stderr |-> stderr[i]]

\* what a step does to the results of invocation i
ResolveStep(i) ==
    /\ IsPrefix(runs[i], runs'[i])
    /\ Len(runs'[i]) <= Len(runs[i]) + 1
    /\ Len(runs'[i]) <= Len(spawnLog'[i])
    /\ Len(runs'[i]) > Len(runs[i]) =>
          /\ ~finished[i]
          /\ finished'[i]
          /\ child[i].state \in {"failed", "exited"}
          /\ ResultNow(i, runs'[i][Len(runs'[i])])
          /\ last'[i] = runs'[i][Len(runs'[i])].result
    /\ (finished[i] /\ SameCandidate(i)) =>
          /\ finished'[i]
          /\ runs'[i] = runs[i]
          /\ phase'[i] = phase[i] => (last'[i] = last[i] /\ idx'[i] = idx[i])
    /\ (child[i].state = "errored" /\ child'[i].state = "none") =>
          UNCHANGED <<runs, last, pc, idx, response, finished, phase>>

\* C25: runCommand resolves exactly once per candidate, with the exit code,
\* notFound, timedOut, stdout and stderr as they are at the first terminal
\* event (error or close); an event delivered afterwards, such as the close
\* that follows an error, does not change the result that was returned.
ResolvesOnce == [][\A i \in Invs : ResolveStep(i)]_vars

\* the close event of a child whose spawn failed has been delivered after the
\* error event resolved the candidate
LateCloseWitness ==
    \E i \in Invs :
        /\ Len(runs[i]) > 0
        /\ Len(runs[i]) = Len(spawnLog[i])
        /\ FinalRun(i).event = "error"
        /\ finished[i]
        /\ child[i].state = "none"

(* ------------------------------------------------------------------ *)
(* The dispatcher under fair scheduling                                  *)
(* ------------------------------------------------------------------ *)
\* the languages of the requests of the fair specification: a direct one
\* and a compiled one
LiveLanguages == {"javascript", "go"}

\* requests that pass validation
LiveRequests ==
    { [security |-> SecurityOk,
       body |-> [valid |-> TRUE,
                 code |-> [type |-> "string", value |-> <<" ", "x", " ">>],
                 language |-> [type |-> "string", value |-> l]]] :
        l \in LiveLanguages }

InitLive ==
    /\ InitCommon
    /\ registry = InMemory
    /\ specs = LANGUAGE_SPECS
    /\ \E r \in LiveRequests : req = [i \in Invs |-> r]
    /\ pc = [i \in Invs |-> IF i = 1 THEN "verify" ELSE "idle"]

\* the steps that are taken whenever they stay possible: the event loop
\* resumes the handler after each await and runs an expired timer's
\* callback, a child that runs ends (by itself or when it is killed), and a
\* child that ended, or one whose spawn failed, emits its close or error event
Progress(i) ==
    \/ POSTVerify(i)
    \/ POSTValidate(i)
    \/ POSTMkdir(i)
    \/ POSTWriteFile(i)
    \/ RunCommandSpawn(i)
    \/ TimerExpire(i)
    \/ ErrorEvent(i)
    \/ CloseEvent(i)
    \/ POSTAfterSearch(i)
    \/ POSTFinally(i)

SpecLive == InitLive /\ [][Next]_vars /\ \A i \in Invs : WF_vars(Progress(i))

(* ------------------------------------------------------------------ *)
(* C26                                                                  *)
(* ------------------------------------------------------------------ *)
\* the request of invocation i has passed validation
PassedValidation(i) == pc[i] = "mkdir"

\* the invocation has spawned no more children than its language has
\* compile candidates and run candidates
SpawnBound(i) ==
    Len(spawnLog[i]) <=
        IF SpecOf(i).kind = "direct"
        THEN Len(CandidatesOf(SpecOf(i), "direct"))
        ELSE Len(CandidatesOf(SpecOf(i), "compile"))
             + Len(CandidatesOf(SpecOf(i), "run"))

\* the invocation has returned: its caller has a response or an exception
Returned(i) == pc[i] = "done" /\ response[i] # NoResponse

\* C26: under fairness, and with every spawned child eventually emitting an
\* error or a close event, every invocation that passes validation
\* eventually returns one response and has performed the cleanup of the
\* workspace it created, after spawning at most as many children as its
\* language has compile candidates plus run candidates.
EventuallyReturnsClean ==
    \A i \in Invs :
        /\ [](PassedValidation(i) => SpawnBound(i))
        /\ PassedValidation(i) ~>
              (Returned(i) /\ SpawnBound(i) /\ (CreatedDir(i) => rmCalled[i]))

\* the same but for the invocations whose source file could not be written
EventuallyReturns ==
    \A i \in Invs :
        /\ [](SpawnBound(i))
        /\ PassedValidation(i) ~>
              (Returned(i) /\ SpawnBound(i)
                 /\ (CreatedDir(i) /\ response[i].body # Thrown("fs.writeFile").body
                        => rmCalled[i]))

(* ------------------------------------------------------------------ *)
(* verifyApiSecurity                                                     *)
(* ------------------------------------------------------------------ *)
\* apiAuthCookie.length < 32
ApiAuthMinLength == 32

\* a header or cookie that the request does not carry: headers.get gives
\* null, cookies.get(...)?.value gives undefined
Absent == [present |-> FALSE]

\* a header or cookie with the given value
Given(v) == [present |-> TRUE, value |-> v]

\* a token of n characters c
Token(c, n) == [k \in 1..n |-> c]

\* !value of a token, null or undefined
Falsy(x) == ~x.present \/ x.value = <<>>

\* !value of a header that is absent or holds a URL or a keyword
NoValue(x) == ~x.present

\* request.nextUrl.origin
ExpectedOrigin == [scheme |-> "https", host |-> "app.example"]

\* the values of the Origin and Referer headers: URLs, and a text that
\* new URL rejects
UrlValues ==
    { [valid |-> TRUE, scheme |-> "https", host |-> "app.example", path |-> ""],
      [valid |-> TRUE, scheme |-> "https", host |-> "app.example", path |-> "/room/1"],
      [valid |-> TRUE, scheme |-> "http", host |-> "app.example", path |-> ""],
      [valid |-> TRUE, scheme |-> "https", host |-> "evil.example", path |-> ""],
      [valid |-> FALSE, scheme |-> "", host |-> "", path |-> "null"] }

\* new URL(value).origin
OriginOf(url) == [scheme |-> url.scheme, host |-> url.host]

\* isSameOrigin(originValue, expectedOrigin)
isSameOrigin(originValue, expectedOrigin) ==
    IF NoValue(originValue) THEN FALSE
    ELSE IF ~originValue.value.valid THEN FALSE
    ELSE OriginOf(originValue.value) = expectedOrigin

\* a check that does not look at the length of the API-auth cookie
verifyApiSecurityAnyLength(request) ==
    LET fetchSiteAllowed ==
            \/ NoValue(request.secFetchSite)
            \/ request.secFetchSite.value \in {"same-origin", "same-site", "none"}
    IN  IF (~isSameOrigin(request.origin, ExpectedOrigin)
              /\ ~isSameOrigin(request.referer, ExpectedOrigin))
           \/ ~fetchSiteAllowed
        THEN [ok |-> FALSE, status |-> 403, error |-> "Blocked by CSRF origin policy"]
        ELSE IF request.method \notin {"GET", "HEAD", "OPTIONS"}
                /\ (\/ Falsy(request.apiAuthCookie)
                    \/ Falsy(request.apiAuthHeader)
                    \/ request.apiAuthCookie.value # request.apiAuthHeader.value)
        THEN [ok |-> FALSE, status |-> 401, error |-> "Invalid API auth session"]
        ELSE IF request.method \notin {"GET", "HEAD", "OPTIONS"}
                /\ (\/ Falsy(request.csrfCookie)
                    \/ Falsy(request.csrfHeader)
                    \/ request.csrfCookie.value # request.csrfHeader.value)
        THEN [ok |-> FALSE, status |-> 403, error |-> "Invalid CSRF token"]
        ELSE [ok |-> TRUE, status |-> 200, error |-> ""]

\* verifyApiSecurity(request)
verifyApiSecurity(request) ==
    LET sameOriginByOrigin == isSameOrigin(request.origin, ExpectedOrigin)
        sameOriginByReferer == isSameOrigin(request.referer, ExpectedOrigin)
        fetchSiteAllowed ==
            \/ NoValue(request.secFetchSite)
            \/ request.secFetchSite.value = "same-origin"
            \/ request.secFetchSite.value = "same-site"
            \/ request.secFetchSite.value = "none"
    IN  IF (~sameOriginByOrigin /\ ~sameOriginByReferer) \/ ~fetchSiteAllowed
        THEN [ok |-> FALSE, status |-> 403, error |-> "Blocked by CSRF origin policy"]
        ELSE IF request.method \notin {"GET", "HEAD", "OPTIONS"}
                /\ (\/ Falsy(request.apiAuthCookie)
                    \/ Falsy(request.apiAuthHeader)
                    \/ request.apiAuthCookie.value # request.apiAuthHeader.value
                    \/ Len(request.apiAuthCookie.value) < ApiAuthMinLength)
        THEN [ok |-> FALSE, status |-> 401, error |-> "Invalid API auth session"]
        ELSE IF request.method \notin {"GET", "HEAD", "OPTIONS"}
                /\ (\/ Falsy(request.csrfCookie)
                    \/ Falsy(request.csrfHeader)
                    \/ request.csrfCookie.value # request.csrfHeader.value)
        THEN [ok |-> FALSE, status |-> 403, error |-> "Invalid CSRF token"]
        ELSE [ok |-> TRUE, status |-> 200, error |-> ""]

\* what a POST to the route can carry in the headers and cookies that
\* verifyApiSecurity reads
HttpInputs ==
    [method : {"POST"},
     origin : {Absent} \cup { Given(u) : u \in UrlValues },
     referer : {Absent} \cup { Given(u) : u \in
                  { v \in UrlValues : v.scheme = "https" /\ v.path # "" } },
     secFetchSite : {Absent} \cup { Given(s) : s \in
                  {"same-origin", "same-site", "none", "cross-site"} },
     apiAuthCookie : {Absent, Given(Token("a", ApiAuthMinLength - 1)),
                      Given(Token("a", ApiAuthMinLength))},
     apiAuthHeader : {Absent, Given(Token("a", ApiAuthMinLength - 1)),
                      Given(Token("a", ApiAuthMinLength)),
                      Given(Token("b", ApiAuthMinLength))},
     csrfCookie : {Absent, Given(<<>>), Given(Token("c", 2))},
     csrfHeader : {Absent, Given(Token("c", 2)), Given(Token("d", 2))}]

\* the bodies of the requests: one that runs a program, and one that
\* request.json() rejects
GateBodies ==
    { [valid |-> TRUE, code |-> [type |-> "string", value |-> <<" ", "x", " ">>],
       language |-> [type |-> "string", value |-> "javascript"]],
      [valid |-> FALSE, code |-> [type |-> "undefined", value |-> <<>>],
       language |-> [type |-> "undefined", value |-> ""]] }

\* the requests, each with what verifyApiSecurity returns for it
GateRequests ==
    { [http |-> h, security |-> verifyApiSecurity(h), body |-> b] :
        h \in HttpInputs, b \in GateBodies }

InitGate ==
    /\ InitCommon
    /\ registry = InMemory
    /\ specs = LANGUAGE_SPECS
    /\ \E r \in GateRequests : req = [i \in Invs |-> r]
    /\ pc = [i \in Invs |-> IF i = 1 THEN "verify" ELSE "idle"]

SpecGate == InitGate /\ [][NextConc]_vars

(* ------------------------------------------------------------------ *)
(* C27                                                                  *)
(* ------------------------------------------------------------------ *)
\* the header is a URL of the application's own origin
NamesTheApp(x) ==
    /\ x.present
    /\ x.value.valid
    /\ x.value.scheme = "https"
    /\ x.value.host = "app.example"

\* the POST is not same-origin: neither its Origin nor its Referer is of the
\* application's origin, or the browser marked it as cross-site
NotSameOrigin(h) ==
    \/ ~NamesTheApp(h.origin) /\ ~NamesTheApp(h.referer)
    \/ h.secFetchSite.present /\ h.secFetchSite.value = "cross-site"

\* the API-auth cookie is missing, shorter than 32 characters or different
\* from the x-api-auth header
ApiAuthRefused(h) ==
    \/ ~h.apiAuthCookie.present
    \/ Len(h.apiAuthCookie.value) < ApiAuthMinLength
    \/ h.apiAuthHeader # h.apiAuthCookie

\* the CSRF cookie is missing or different from the x-csrf-token header
CsrfRefused(h) ==
    \/ ~h.csrfCookie.present
    \/ h.csrfCookie.value = <<>>
    \/ h.csrfHeader # h.csrfCookie

\* the invocation is refused with the status and the error, without having
\* read the body, created a directory or spawned a process
RefusedWith(i, status, error) ==
    /\ pc[i] \in {"idle", "verify", "done"}
    /\ NothingAllocated(i)
    /\ pc[i] = "done" => response[i] = JsonResponse([error |-> <<error>>], status)

\* C27: the dispatcher creates no workspace directory and spawns no process
\* unless verifyApiSecurity accepted the request.  The checks are made in
\* this order, each before the request body is read: a POST that is not
\* same-origin gets 403; otherwise one whose API-auth cookie is missing,
\* shorter than 32 characters or different from the x-api-auth header gets
\* 401; otherwise one whose CSRF cookie is missing or different from the
\* x-csrf-token header gets 403.
GatedBySecurity ==
    \A i \in Invs :
        LET h == req[i].http
        IN  /\ NotSameOrigin(h) =>
                  RefusedWith(i, 403, "Blocked by CSRF origin policy")
            /\ (~NotSameOrigin(h) /\ ApiAuthRefused(h)) =>
                  RefusedWith(i, 401, "Invalid API auth session")
            /\ (~NotSameOrigin(h) /\ ~ApiAuthRefused(h) /\ CsrfRefused(h)) =>
                  RefusedWith(i, 403, "Invalid CSRF token")
            /\ (~NothingAllocated(i) \/ pc[i] \notin {"idle", "verify", "done"}) =>
                  /\ req[i].security.ok
                  /\ ~NotSameOrigin(h) /\ ~ApiAuthRefused(h) /\ ~CsrfRefused(h)

\* a same-origin POST whose API-auth cookie equals the header but has 31
\* characters, and whose body is not JSON, has been answered with 401
GatedWitness ==
    \E i \in Invs :
        /\ pc[i] = "done"
        /\ response[i].status = 401
        /\ ~req[i].body.valid
        /\ ~NotSameOrigin(req[i].http)
        /\ req[i].http.apiAuthCookie = req[i].http.apiAuthHeader
        /\ req[i].http.apiAuthCookie.present
        /\ Len(req[i].http.apiAuthCookie.value) = ApiAuthMinLength - 1

\* an accepted POST has its program running
GatedAcceptedWitness ==
    \E i \in Invs :
        /\ pc[i] = "child"
        /\ child[i].state = "running"
        /\ req[i].http.origin = Absent
        /\ NamesTheApp(req[i].http.referer)

(* ------------------------------------------------------------------ *)
(* The room registry: texts                                              *)
(* ------------------------------------------------------------------ *)
\* .slice(0, 64) of normalizeRoomId
RoomIdMaxLength == 64

\* .slice(0, 80) of the room name
RoomNameMaxLength == 80

\* .slice(0, 40) of the display name
DisplayNameMaxLength == 40

\* const TICKET_TTL_MS = 1000 * 60 * 60 * 24 * 7
TICKET_TTL_MS == 1000 * 60 * 60 * 24 * 7

\* const TICKET_VERSION = 1
TICKET_VERSION == 1

UpperCase ==
    <<"A", "B", "C", "D", "E", "F", "G", "H", "I", "J", "K", "L", "M",
      "N", "O", "P", "Q", "R", "S", "T", "U", "V", "W", "X", "Y", "Z">>

LowerCase ==
    <<"a", "b", "c", "d", "e", "f", "g", "h", "i", "j", "k", "l", "m",
      "n", "o", "p", "q", "r", "s", "t", "u", "v", "w", "x", "y", "z">>

Digits == {"0", "1", "2", "3", "4", "5", "6", "7", "8", "9"}

\* the characters the class [a-z0-9-_] holds
IdChars == { LowerCase[k] : k \in 1..Len(LowerCase) } \cup Digits \cup {"-", "_"}

\* String.prototype.toLowerCase, one character
toLowerCase(c) ==
    IF \E k \in 1..Len(UpperCase) : UpperCase[k] = c
    THEN LowerCase[CHOOSE k \in 1..Len(UpperCase) : UpperCase[k] = c]
    ELSE c

\* .slice(0, n)
Slice(s, n) == IF Len(s) <= n THEN s ELSE SubSeq(s, 1, n)

\* .replace(/-+/g, "-")
RECURSIVE CollapseDashes(_)
CollapseDashes(s) ==
    IF Len(s) < 2 THEN s
    ELSE IF s[1] = "-" /\ s[2] = "-" THEN CollapseDashes(Tail(s))
    ELSE <<s[1]>> \o CollapseDashes(Tail(s))

\* .replace(/^-|-$/g, "")
StripDashes(s) ==
    LET front == IF s # <<>> /\ Head(s) = "-" THEN Tail(s) ELSE s
    IN  IF front # <<>> /\ front[Len(front)] = "-"
        THEN SubSeq(front, 1, Len(front) - 1)
        ELSE front

\* normalizeRoomId(input)
normalizeRoomId(input) ==
    LET trimmed == Trim(input)
        lower == [k \in 1..Len(trimmed) |-> toLowerCase(trimmed[k])]
        dashed == [k \in 1..Len(lower) |->
                      IF lower[k] \in IdChars THEN lower[k] ELSE "-"]
    IN  Slice(StripDashes(CollapseDashes(dashed)), RoomIdMaxLength)

\* createHash("sha256").update(password).digest("hex"): different passwords
\* have different digests
hashPassword(password) == [sha256 |-> password]

\* params.password?.trim() ?? ""
PasswordOf(params) ==
    IF params.password.present THEN Trim(params.password.value) ELSE <<>>

(* ------------------------------------------------------------------ *)
(* The room registry: state                                              *)
(* ------------------------------------------------------------------ *)
\* how many tickets are issued at most
MaxTickets == 2

\* the revisions of the registry: the Maps in memory, and the table rooms
\* with signed tickets, whose secret is set or missing
Registries ==
    { InMemory,
      [revision |-> "signed", secret |-> ""],
      [revision |-> "signed", secret |-> "s3cret"] }

\* the room ids the callers of createRoom supply: two texts for the room
\* a-b and one that holds no character of an id
RoomIdInputs ==
    { <<"A", " ", "b">>,
      <<" ", "a", "-", "-", "b", "!">>,
      <<"?">> }

\* the room ids the callers of joinRoom and validateRoomAccess supply: the
\* room a-b and one that is never created
AskedRoomIds == { <<" ", "a", "-", "-", "b", "!">>, <<"c">> }

RoomNameInputs == { <<" ">>, <<"L", "a", "b", " ">> }

PasswordInputs == { Absent, Given(<<"p", " ">>) }

DisplayNameInputs == { <<" ">>, <<" ", "Z">> }

CreateParams ==
    [roomId : RoomIdInputs, roomName : RoomNameInputs, password : PasswordInputs]

JoinParams ==
    [roomId : AskedRoomIds, displayName : DisplayNameInputs,
     password : PasswordInputs]

\* everything but the room registry
dispatcherVars ==
    <<req, specs, platform, runDir, compileResult, pending, response, pc,
      searchVars, commandVars, hostVars>>

\* the dispatcher is idle while the registry is called
InitRooms ==
    /\ InitCommon
    /\ registry \in Registries
    /\ platform = "linux"
    /\ specs = LANGUAGE_SPECS
    /\ req = [i \in Invs |-> [security |-> SecurityOk, body |-> PlainBody]]
    /\ pc = [i \in Invs |-> "idle"]

\* the moments at which the registry is called: the start, and the last
\* millisecond before and the first at the expiry of the tickets issued then
Moments == {0, TICKET_TTL_MS - 1, TICKET_TTL_MS}

\* time passes, up to a later moment
Tick ==
    /\ \E later \in Moments :
        /\ later > now
        /\ now' = later
    /\ UNCHANGED <<rooms, tickets, issued, call, registry>>
    /\ UNCHANGED dispatcherVars

\* a Map that never has the room
RoomsHasNever(map, roomId) == FALSE

\* rooms.has(roomId)
RoomsHas(map, roomId) == \E r \in map : r.roomId = roomId

\* rooms.get(roomId), and the row of SELECT ... WHERE room_id = $1
RoomsGet(map, roomId) ==
    IF \E r \in map : r.roomId = roomId
    THEN Given(CHOOSE r \in map : r.roomId = roomId)
    ELSE Absent

\* rooms.set(roomId, record)
RoomsSet(map, record) == { r \in map : r.roomId # record.roomId } \cup {record}

\* the record createRoom stores
RoomRecord(roomId, roomName, password, createdAt) ==
    [roomId |-> roomId, roomName |-> roomName,
     passwordHash |-> IF password # <<>> THEN Given(hashPassword(password))
                      ELSE Absent,
     createdAt |-> createdAt]

Failure(error) == [ok |-> FALSE, error |-> error]

\* createRoom(params) of the registry in memory
createRoom(params) ==
    /\ registry.revision = "memory"
    /\ LET roomId == normalizeRoomId(params.roomId)
           roomName == Slice(Trim(params.roomName), RoomNameMaxLength)
           record == RoomRecord(roomId, roomName, PasswordOf(params), now)
           result ==
               IF roomId = <<>> THEN Failure("Room ID is required.")
               ELSE IF roomName = <<>> THEN Failure("Room name is required.")
               ELSE IF RoomsHas(rooms, roomId) THEN Failure("Room already exists.")
               ELSE [ok |-> TRUE, roomId |-> roomId]
       IN  /\ rooms' = IF result.ok THEN RoomsSet(rooms, record) ELSE rooms
           /\ call' = [op |-> "createRoom", params |-> params, result |-> result]
    /\ UNCHANGED <<tickets, now, issued, registry>>
    /\ UNCHANGED dispatcherVars

\* INSERT INTO rooms: room_id is the primary key of the table, and a second
\* row with the same key is refused with error code 23505
Insert(table, row) ==
    IF \E r \in table : r.roomId = row.roomId
    THEN [code |-> "23505", table |-> table]
    ELSE [code |-> "", table |-> table \cup {row}]

\* createRoom(params) of the registry on the database
createRoomDb(params) ==
    /\ registry.revision = "signed"
    /\ LET roomId == normalizeRoomId(params.roomId)
           roomName == Slice(Trim(params.roomName), RoomNameMaxLength)
           inserted == Insert(rooms,
                          RoomRecord(roomId, roomName, PasswordOf(params), now))
           result ==
               IF roomId = <<>> THEN Failure("Room ID is required.")
               ELSE IF roomName = <<>> THEN Failure("Room name is required.")
               ELSE IF inserted.code = "23505" THEN Failure("Room already exists.")
               ELSE [ok |-> TRUE, roomId |-> roomId]
       IN  /\ rooms' = IF result.ok THEN inserted.table ELSE rooms
           /\ call' = [op |-> "createRoom", params |-> params, result |-> result]
    /\ UNCHANGED <<tickets, now, issued, registry>>
    /\ UNCHANGED dispatcherVars

(* ------------------------------------------------------------------ *)
(* The room registry: tickets                                            *)
(* ------------------------------------------------------------------ *)
\* A token is the sequence of the segments its text has between dots:
\* token.split(".").  The empty text has none.

\* the payload of a segment that holds none
NoPayload ==
    [v |-> 0, jti |-> 0, roomId |-> <<>>, displayName |-> <<>>, color |-> "",
     exp |-> 0]

\* a segment of a token: hexadecimal digits, the base64url text of a payload,
\* the digest of a text under a key, or anything else
Segment(kind, n, payload, key) ==
    [kind |-> kind, n |-> n, payload |-> payload, key |-> key]

\* randomBytes(n).toString("hex"): a value that was never returned before;
\* the values are numbered from 1
randomBytes(used) == Cardinality(used) + 1

\* randomColor()
Colors == {"#c0ffee"}

\* a comparison of passwords that lets every password pass
PasswordMatchesAlways(room, password) == TRUE

\* !(room.passwordHash && hashPassword(password) !== room.passwordHash)
PasswordMatches(room, password) ==
    \/ ~room.passwordHash.present
    \/ hashPassword(password) = room.passwordHash.value

\* cleanExpiredTickets()
cleanExpiredTickets(map, time) == { t \in map : ~(t.expiresAt <= time) }

\* tickets.get(token)
TicketsGet(map, token) ==
    IF \E t \in map : t.token = token
    THEN Given(CHOOSE t \in map : t.token = token)
    ELSE Absent

\* tickets.set(token, ticket)
TicketsSet(map, ticket) == { t \in map : t.token # ticket.token } \cup {ticket}

\* tickets.delete(token)
TicketsDelete(map, token) == { t \in map : t.token # token }

\* no check of joinRoom failed
Passed == [ok |-> TRUE, error |-> ""]

\* what joinRoom answers before it makes a ticket, or Passed when it goes on
JoinFailure(room, params) ==
    IF ~room.present THEN Failure("Room not found.")
    ELSE IF ~PasswordMatches(room.value, PasswordOf(params))
         THEN Failure("Invalid room password.")
    ELSE IF Slice(Trim(params.displayName), DisplayNameMaxLength) = <<>>
         THEN Failure("Display name is required.")
    ELSE Passed

\* joinRoom(params) of the registry in memory
joinRoom(params) ==
    /\ registry.revision = "memory"
    /\ Cardinality(issued) < MaxTickets
    /\ LET cleaned == cleanExpiredTickets(tickets, now)
           roomId == normalizeRoomId(params.roomId)
           room == RoomsGet(rooms, roomId)
           failure == JoinFailure(room, params)
       IN  IF ~failure.ok
           THEN /\ tickets' = cleaned
                /\ call' = [op |-> "joinRoom", params |-> params, result |-> failure]
                /\ UNCHANGED issued
           ELSE \E color \in Colors :
                LET ticket ==
                        [token |-> <<Segment("hex", randomBytes(issued),
                                             NoPayload, "")>>,
                         roomId |-> roomId,
                         displayName |-> Slice(Trim(params.displayName),
                                               DisplayNameMaxLength),
                         color |-> color,
                         expiresAt |-> now + TICKET_TTL_MS]
                IN  /\ tickets' = TicketsSet(cleaned, ticket)
                    /\ issued' = issued \cup {ticket}
                    /\ call' = [op |-> "joinRoom", params |-> params,
                                result |-> [ok |-> TRUE, ticket |-> ticket,
                                            room |-> [roomId |-> room.value.roomId,
                                                      roomName |-> room.value.roomName]]]
    /\ UNCHANGED <<rooms, now, registry>>
    /\ UNCHANGED dispatcherVars

\* validateRoomAccess(token, roomIdInput) of the registry in memory; the clock
\* is read by cleanExpiredTickets and again for the ticket that was found
validateRoomAccess(token, roomIdInput) ==
    /\ registry.revision = "memory"
    /\ \E d \in {0, 1} :
        /\ now + d \in Moments
        /\ now' = now + d
        /\ LET cleaned == cleanExpiredTickets(tickets, now)
               roomId == normalizeRoomId(roomIdInput)
               ticket == IF Falsy(token) THEN Absent
                         ELSE TicketsGet(cleaned, token.value)
               expired == ticket.present /\ ticket.value.roomId = roomId
                            /\ ticket.value.expiresAt <= now'
               result == IF ~ticket.present THEN Absent
                         ELSE IF ticket.value.roomId # roomId THEN Absent
                         ELSE IF expired THEN Absent
                         ELSE ticket
           IN  /\ tickets' = IF expired THEN TicketsDelete(cleaned, token.value)
                             ELSE cleaned
               /\ call' = [op |-> "validateRoomAccess", token |-> token,
                           roomId |-> roomIdInput, at |-> now',
                           result |-> result]
    /\ UNCHANGED <<rooms, issued, registry>>
    /\ UNCHANGED dispatcherVars

\* the tokens a caller of the registry in memory can present: none, the
\* empty text, a value that was never issued, and the tokens it was given
TokenInputs ==
    {Absent, Given(<<>>), Given(<<Segment("hex", 0, NoPayload, "")>>)}
    \cup { Given(t.token) : t \in issued }

(* ------------------------------------------------------------------ *)
(* The room registry: signed tickets                                     *)
(* ------------------------------------------------------------------ *)
\* toBase64Url(JSON.stringify(payload))
toBase64Url(payload) == Segment("base64url", 0, payload, "")

\* createHmac("sha256", secret).update(payloadBase64).digest("base64url"):
\* the digest is determined by the text and the key and by nothing else
signTicketPayload(payloadBase64, secret) ==
    Segment("hmac", 0, payloadBase64.payload, secret)

\* createAccessToken(payload)
createAccessToken(payload, secret) ==
    IF secret = "" THEN Absent
    ELSE Given(<<toBase64Url(payload),
                 signTicketPayload(toBase64Url(payload), secret)>>)

\* a segment that is no base64url of a JSON text
Junk == Segment("junk", 0, NoPayload, "")

\* the checks parseAccessToken makes on the parsed value
WellFormed(parsed) ==
    /\ parsed.v = TICKET_VERSION
    /\ parsed.jti # 0
    /\ parsed.roomId # <<>>
    /\ parsed.displayName # <<>>
    /\ parsed.color # ""

\* parseAccessToken(token)
parseAccessToken(token, secret) ==
    IF Falsy(token) THEN Absent
    ELSE IF Len(token.value) < 2 THEN Absent
    ELSE IF secret = "" THEN Absent
    ELSE IF token.value[2] # signTicketPayload(token.value[1], secret) THEN Absent
    ELSE IF token.value[1].kind # "base64url" THEN Absent
    ELSE IF ~WellFormed(token.value[1].payload) THEN Absent
    ELSE Given(token.value[1].payload)

\* joinRoom(params) of the registry with signed tickets
joinRoomSigned(params) ==
    /\ registry.revision = "signed"
    /\ Cardinality(issued) < MaxTickets
    /\ LET roomId == normalizeRoomId(params.roomId)
           room == RoomsGet(rooms, roomId)
           failure == JoinFailure(room, params)
       IN  IF ~failure.ok
           THEN /\ call' = [op |-> "joinRoom", params |-> params, result |-> failure]
                /\ UNCHANGED issued
           ELSE \E color \in Colors :
                LET ticketId == randomBytes(issued)
                    displayName == Slice(Trim(params.displayName),
                                         DisplayNameMaxLength)
                    payload == [v |-> TICKET_VERSION, jti |-> ticketId,
                                roomId |-> roomId, displayName |-> displayName,
                                color |-> color, exp |-> now + TICKET_TTL_MS]
                    token == createAccessToken(payload, registry.secret)
                    ticket == [token |-> token.value, ticketId |-> ticketId,
                               roomId |-> roomId, displayName |-> displayName,
                               color |-> color, expiresAt |-> now + TICKET_TTL_MS]
                IN  IF ~token.present
                    THEN /\ call' = [op |-> "joinRoom", params |-> params,
                                     result |-> Failure("Room ticket secret is missing.")]
                         /\ UNCHANGED issued
                    ELSE /\ issued' = issued \cup {ticket}
                         /\ call' = [op |-> "joinRoom", params |-> params,
                                     result |-> [ok |-> TRUE, ticket |-> ticket,
                                                 room |-> [roomId |-> room.value.roomId,
                                                           roomName |-> room.value.roomName]]]
    /\ UNCHANGED <<rooms, tickets, now, registry>>
    /\ UNCHANGED dispatcherVars

\* validateRoomAccess(token, roomIdInput) of the registry with signed tickets
validateRoomAccessSigned(token, roomIdInput) ==
    /\ registry.revision = "signed"
    /\ LET roomId == normalizeRoomId(roomIdInput)
           payload == parseAccessToken(token, registry.secret)
           result ==
               IF ~payload.present THEN Absent
               ELSE IF payload.value.roomId # roomId THEN Absent
               ELSE IF payload.value.exp <= now THEN Absent
               ELSE Given([token |-> token.value,
                           ticketId |-> payload.value.jti,
                           roomId |-> payload.value.roomId,
                           displayName |-> payload.value.displayName,
                           color |-> payload.value.color,
                           expiresAt |-> payload.value.exp])
       IN  call' = [op |-> "validateRoomAccess", token |-> token,
                    roomId |-> roomIdInput, at |-> now, result |-> result]
    /\ UNCHANGED <<rooms, tickets, now, issued, registry>>
    /\ UNCHANGED dispatcherVars

\* what a caller who holds the ticket t, and not the secret, can make of its
\* token for the room it asks for: the token, the token with a further
\* segment, its payload alone, the payload rewritten for that room and a
\* later expiry under the old signature, and the rewritten payload signed
\* with a key of its own
TokensFrom(t, roomIdInput) ==
    LET payload == t.token[1].payload
        rewritten == toBase64Url([payload EXCEPT
                         !.roomId = normalizeRoomId(roomIdInput),
                         !.exp = @ + 1])
    IN  { t.token,
          t.token \o <<Junk>>,
          <<t.token[1]>>,
          <<rewritten, t.token[2]>>,
          <<rewritten, signTicketPayload(rewritten, "guess")>> }

SignedTokenInputs(roomIdInput) ==
    {Absent, Given(<<>>), Given(<<Junk, Junk>>)}
    \cup { Given(k) : k \in UNION { TokensFrom(t, roomIdInput) : t \in issued } }

NextRooms ==
    \/ Tick
    \/ \E params \in CreateParams : createRoom(params)
    \/ \E params \in CreateParams : createRoomDb(params)
    \/ \E params \in JoinParams : joinRoom(params)
    \/ \E params \in JoinParams : joinRoomSigned(params)
    \/ /\ registry.revision = "memory"
       /\ \E roomIdInput \in AskedRoomIds :
             \E token \in TokenInputs : validateRoomAccess(token, roomIdInput)
    \/ /\ registry.revision = "signed"
       /\ \E roomIdInput \in AskedRoomIds :
             \E token \in SignedTokenInputs(roomIdInput) :
                 validateRoomAccessSigned(token, roomIdInput)

SpecRooms == InitRooms /\ [][NextRooms]_vars

\* POST of the join route: what it answers for the result of joinRoom, and
\* the cookie __room_ticket it sets
JoinRouteResponse(joined) ==
    IF ~joined.ok
    THEN [status |-> 400, body |-> [error |-> joined.error], cookie |-> Absent]
    ELSE [status |-> 200,
          body |-> [roomId |-> joined.room.roomId,
                    roomName |-> joined.room.roomName],
          cookie |-> Given(joined.ticket.token)]

(* ------------------------------------------------------------------ *)
(* C28                                                                  *)
(* ------------------------------------------------------------------ *)
\* a successful joinRoom issued the token for the room with this normalized
\* id, and it expires after the moment given
IssuedFor(token, roomIdInput, at) ==
    \E t \in issued :
        /\ t.token = token
        /\ t.roomId = normalizeRoomId(roomIdInput)
        /\ t.expiresAt > at

\* validateRoomAccess has returned a ticket
Validated == call.op = "validateRoomAccess" /\ call.result.present

\* C28: after any sequence of createRoom, joinRoom and validateRoomAccess
\* calls, validateRoomAccess(token, roomId) returns a ticket only if that
\* token was issued by a successful joinRoom for the same normalized room id
\* and its expiry time is strictly later than the current time.
ValidatesOnlyIssued ==
    Validated => IssuedFor(call.token.value, call.roomId, call.at)

\* the same for the token's first two segments
ValidatesOnlyIssuedSegments ==
    Validated =>
        /\ Len(call.token.value) >= Len(call.result.value.token)
        /\ \E t \in issued :
              /\ t.token = SubSeq(call.token.value, 1, Len(t.token))
              /\ t.roomId = normalizeRoomId(call.roomId)
              /\ t.roomId = call.result.value.roomId
              /\ t.expiresAt > call.at
              /\ t.expiresAt = call.result.value.expiresAt

\* the registry in memory keeps the claim
ValidatesOnlyIssuedInMemory ==
    registry.revision = "memory" => ValidatesOnlyIssued

\* a ticket has been validated
ValidatedWitness == Validated /\ IssuedFor(call.token.value, call.roomId, call.at)

(* ------------------------------------------------------------------ *)
(* C29                                                                  *)
(* ------------------------------------------------------------------ *)
\* the room with the normalized id exists, the supplied password hashes to
\* its stored hash if it has one, and the trimmed display name is not empty
MayJoin(params) ==
    /\ \E r \in rooms :
          /\ r.roomId = normalizeRoomId(params.roomId)
          /\ r.passwordHash.present =>
                /\ params.password.present
                /\ r.passwordHash.value = hashPassword(Trim(params.password.value))
    /\ Trim(params.displayName) # <<>>

JoinErrors ==
    {"Room not found.", "Invalid room password.", "Display name is required.",
     "Room ticket secret is missing."}

\* C29: joinRoom issues a ticket only if the room with the normalized id
\* exists, the supplied password hashes to the room's stored hash when the
\* room has one, and the trimmed display name is non-empty; on each of these
\* failures it returns an error and no ticket is created, stored or returned.
JoinIssuesOnlyIfAllowed ==
    [][ /\ (issued' # issued \/ ~(tickets' \subseteq tickets)) =>
              /\ call'.op = "joinRoom"
              /\ call'.result.ok
              /\ issued' = issued \cup {call'.result.ticket}
              /\ tickets' \subseteq tickets \cup {call'.result.ticket}
        /\ (call'.op = "joinRoom" /\ call'.result.ok) => MayJoin(call'.params)
        /\ (call'.op = "joinRoom" /\ ~MayJoin(call'.params)) =>
              /\ ~call'.result.ok
              /\ call'.result.error \in JoinErrors
              /\ "ticket" \notin DOMAIN call'.result
              /\ JoinRouteResponse(call'.result).status = 400
              /\ ~JoinRouteResponse(call'.result).cookie.present
              /\ issued' = issued
              /\ tickets' \subseteq tickets
      ]_vars

\* a join with a wrong password was refused after a ticket had been issued
\* for the same room
JoinRefusedWitness ==
    /\ call.op = "joinRoom"
    /\ ~call.result.ok
    /\ call.result.error = "Invalid room password."
    /\ \E t \in issued : t.roomId = normalizeRoomId(call.params.roomId)

(* ------------------------------------------------------------------ *)
(* C30                                                                  *)
(* ------------------------------------------------------------------ *)
\* the step is a call of createRoom
CreateStep == call'.op = "createRoom" /\ (call' # call \/ rooms' # rooms)

\* the room whose normalized id the caller gives exists already
Exists(params) == \E r \in rooms : r.roomId = normalizeRoomId(params.roomId)

\* no step modifies or removes a room record, and no two records have the
\* same room id
RoomsKept ==
    /\ \A r \in rooms : r \in rooms'
    /\ \A r1, r2 \in rooms' : r1.roomId = r2.roomId => r1 = r2

====
